---- MODULE Spec2Model ----
(***************************************************************************)
(* Model of the Pergyra runtime core: the slot manager                     *)
(* (src/runtime/slot_manager.c), the fiber scheduler                       *)
(* (src/runtime/async/scheduler.c, fiber.c) and the async scope            *)
(* (src/runtime/async/async_scope.c).                                      *)
(*                                                                         *)
(* The slot manager part models the C path of SlotClaim/SlotWrite, the one *)
(* taken for type tags above TYPE_CUSTOM; the assembly fast path           *)
(* (SlotClaimFast, SlotWriteFast) is not part of the C sources.            *)
(***************************************************************************)
EXTENDS Integers, Sequences, FiniteSets, TLC

(***************************************************************************)
(* Bounds of the model.                                                    *)
(***************************************************************************)
\* maxSlots argument of SlotManagerCreate: size of the slot table
MaxSlots == 2
\* memoryPoolSize / blockSize: number of blocks of the memory pool
PoolBlocks == 2
\* nextSlotId is a uint32_t counter; claims are cut off once it passes this
MaxSlotId == 2

\* config.numWorkers of SchedulerCreate
NumWorkers == 2
\* number of fibers FiberCreate can make (cap on fiberIdCounter)
MaxFibers == 4
\* SchedulerSpawn is called by other threads while fiberIdCounter is at most this
MaxSpawned == 2
\* number of scopes AsyncScopeCreate can make
MaxScopes == 2
\* length of the global run queue beyond which SchedulerUnblock is not called
MaxQueue == 2
MaxTokens == 1          \* TokenGenerate runs at most this often (tokensIssued)
MaxValidations == 2     \* TokenValidate is called at most this often
MaxTicks == 1           \* the clock is read at 0, 1, ... MaxTicks times 200 s
MaxEntries == 3         \* map->entryCount of DispatchParallel is at most this
PoolCapacity == 3       \* capacity argument of SlotPoolCreate
MaxPoolAllocs == 4      \* SlotPoolAlloc succeeds at most this often (totalAllocations)
MaxRaceTasks == 2       \* taskCount of AsyncScopeRace is at most this
MaxScopeCapacity == 2   \* capacity argument of SecureSlotScopeCreate is at most this

(***************************************************************************)
(* Program constants.                                                      *)
(***************************************************************************)
BlockSize == 64
TYPE_INT == 1
TYPE_LONG == 2
TYPE_FLOAT == 3
TYPE_DOUBLE == 4
TYPE_STRING == 5
TYPE_BOOL == 6
TYPE_VECTOR == 7
TYPE_CUSTOM == 4096

\* NULL for dataBlockRef; other values are byte offsets from poolStart
NULL == -1

\* Two user-defined type tags (above TYPE_CUSTOM, so the C path is taken)
Types == {TYPE_CUSTOM + 1, TYPE_CUSTOM + 2}
\* generation fields a caller may present in a handle
Generations == {1, 2}
\* sizes of the data passed to SlotWrite and of the buffer passed to SlotRead
DataSizes == {0, 8, 100}
\* the data written is Size bytes all equal to one of these
Fills == {1, 2}

PoolBytes == PoolBlocks * BlockSize

Handles == [slotId : 1..MaxSlotId, typeTag : Types, generation : Generations]
Datas == [size : DataSizes, fill : Fills]

VARIABLES
    slotTable,      \* manager->slotTable: index -> SlotEntry
    nextSlotId,     \* manager->nextSlotId
    activeSlots,    \* manager->activeSlots
    freeBlocks,     \* pool->freeBlocks: block -> BOOLEAN, TRUE = in use
    poolMem,        \* the bytes at pool->poolStart
    lastOp,         \* the last call made on the manager and what it returned
    issued,         \* history: table index -> handles issued for it, in order
    released,       \* history: handles whose SlotRelease returned success
    lastWritten     \* history: slotId -> data of the last successful SlotWrite

VARIABLES
    fibers,         \* fiber id -> the Fiber record (state "NONE": not created)
    nextFiber,      \* fiberIdCounter
    globalRunQueue, \* scheduler->globalRunQueue
    localRunQueue,  \* worker -> worker->localRunQueue
    workers,        \* worker -> [pc, currentFiber] of the WorkerThread
    parkedWorkers,  \* scheduler->parkedWorkers
    woken,          \* parked workers a pthread_cond_signal has woken
    stealingVictim, \* scheduler->stealingVictim modulo numWorkers
    totalFibers,    \* scheduler->totalFibers
    activeFibers,   \* scheduler->activeFibers
    scopes,         \* scope id -> the AsyncScope record
    spawning,       \* the AsyncScopeSpawn call in progress, if any
    crashed,        \* the process has aborted or run into undefined behaviour
    scheduler       \* [isRunning, stopPc, ioWorker]: scheduler->isRunning, the
                    \* position of the SchedulerStop call, the I/O thread

slotVars == <<slotTable, nextSlotId, activeSlots, freeBlocks, poolMem,
              lastOp, issued, released, lastWritten>>

schedVars == <<fibers, nextFiber, globalRunQueue, localRunQueue, workers,
               parkedWorkers, woken, stealingVictim, totalFibers, activeFibers,
               scopes, spawning, crashed, scheduler>>

\* the security context (slot_security.c)
VARIABLES
    context,        \* the SecurityContext: hwFingerprint and the four counters
    hardware,       \* the fingerprint HardwareFingerprintGenerate returns now
    now,            \* SecureTimestamp(), in microseconds
    issuedCaps,     \* the capabilities TokenGenerate has returned to callers
    lastValidate,   \* the last TokenValidate call: its arguments, the clock
                    \* and hardware it saw, and its result
    manager,        \* [securityEnabled, securityViolations] of the SlotManager
    lastSecureOp    \* the last secure slot operation: its arguments and result,
                    \* securityViolations before it, whether the slot was a
                    \* secure one and whether the read, release or refresh was done

secVars == <<context, hardware, now, issuedCaps, lastValidate, manager, lastSecureOp>>

VARIABLES
    dispatch,       \* the locals of a DispatchParallel call and where it stands
    partyFibers     \* entry index -> the fiber DispatchParallel made for it

partyVars == <<dispatch, partyFibers>>

VARIABLES
    pool,           \* the fields of a SlotPool
    lastPoolOp,     \* the last call made on the pool and what it returned
    poolHistory,    \* history: indices handed out and not freed, index freed last
    linkedList,     \* the fields of a LinkedList, its nodePool included
    lastListOp      \* the last call made on the list and what it returned

poolVars == <<pool, lastPoolOp, poolHistory, linkedList, lastListOp>>

VARIABLES
    race            \* the locals of an AsyncScopeRace call (its RaceState and
                    \* tasks) and where the call stands

raceVars == <<race>>

VARIABLES
    secureScope     \* the fields of a SecureSlotScope, where its
                    \* SecureSlotScopeDestroy call stands, and history: the
                    \* SlotReleaseSecure calls made by it, activeSlots at creation

secureScopeVars == <<secureScope>>

vars == <<slotVars, schedVars, secVars, partyVars, poolVars, raceVars, secureScopeVars>>

(***************************************************************************)
(* Slot manager: types and helpers                                         *)
(***************************************************************************)
\* calloc'ed / memset-0 slot entry
\* (reserved is history: the bytes of the blocks AllocateMemoryBlock marked
\* for dataBlockRef; the code keeps no such field)
EmptyEntry == [slotId |-> 0, typeTag |-> 0, occupied |-> FALSE, dataBlockRef |-> NULL,
               securityEnabled |-> FALSE, securityLevel |-> 0, tokenGeneration |-> 0,
               reserved |-> 0]

NoData == [size |-> -1, fill |-> 0]

TypeGetSize(tag) ==
    CASE tag = TYPE_INT    -> 4
      [] tag = TYPE_LONG   -> 8
      [] tag = TYPE_FLOAT  -> 4
      [] tag = TYPE_DOUBLE -> 8
      [] tag = TYPE_BOOL   -> 1
      [] tag = TYPE_STRING -> 256
      [] tag = TYPE_VECTOR -> 1024
      [] OTHER             -> 64

\* (size + blockSize - 1) / blockSize
BlocksFor(size) == (size + BlockSize - 1) \div BlockSize

Min(a, b) == IF a < b THEN a ELSE b

\* the set of start blocks at which blocksNeeded contiguous blocks are free
FreeRuns(fb, blocksNeeded) ==
    {i \in 0..(PoolBlocks - blocksNeeded) :
        \A j \in 0..(blocksNeeded - 1) : ~fb[i + j]}

\* AllocateMemoryBlock: first fit; returns the byte offset (or NULL) and the
\* new freeBlocks
AllocateMemoryBlock(fb, size) ==
    LET blocksNeeded == BlocksFor(size)
        runs == FreeRuns(fb, blocksNeeded)
    IN IF runs = {}
       THEN [ptr |-> NULL, fb |-> fb]
       ELSE LET i == CHOOSE k \in runs : \A m \in runs : k <= m
            IN [ptr |-> i * BlockSize,
                fb  |-> [b \in 0..(PoolBlocks - 1) |->
                           IF b >= i /\ b < i + blocksNeeded THEN TRUE ELSE fb[b]]]

\* DeallocateMemoryBlock: marks ceil(size / blockSize) blocks from ptr free
DeallocateMemoryBlock(fb, ptr, size) ==
    LET blockIndex == ptr \div BlockSize
        blocksToFree == BlocksFor(size)
    IN [b \in 0..(PoolBlocks - 1) |->
          IF b >= blockIndex /\ b < blockIndex + blocksToFree THEN FALSE ELSE fb[b]]

\* the "Find slot" loop of SlotWrite / SlotRead / SlotRelease: the first
\* index whose entry has the handle's slotId and is occupied, or -1
FindSlot(table, handle) ==
    LET hits == {i \in 0..(MaxSlots - 1) :
                    table[i].slotId = handle.slotId /\ table[i].occupied}
    IN IF hits = {} THEN -1 ELSE CHOOSE i \in hits : \A k \in hits : i <= k

\* the "Find empty slot" loop of SlotClaim
FindEmpty(table) ==
    LET hits == {i \in 0..(MaxSlots - 1) : ~table[i].occupied}
    IN IF hits = {} THEN -1 ELSE CHOOSE i \in hits : \A k \in hits : i <= k

\* handle->generation as SlotClaim sets it
ClaimGeneration(table, i) == 1

\* a slot id derived from the table index instead of the monotonic counter
ClaimSlotIdFromIndex(next, i) == i + 1

\* entry->slotId as SlotClaim sets it
ClaimSlotId(next, i) == next

\* poolMem holds the bytes at pool->poolStart run-length encoded: a sequence
\* of <<byte, count>> runs covering addresses 0..PoolBytes-1.  Byte 0 stands
\* for memory no SlotWrite has written yet.
RECURSIVE ByteAtRun(_, _, _)
ByteAtRun(mem, k, a) ==
    IF a < mem[k][2] THEN mem[k][1] ELSE ByteAtRun(mem, k + 1, a - mem[k][2])

ByteAt(mem, a) == ByteAtRun(mem, 1, a)

RECURSIVE RunOffset(_, _)
\* the address at which run k of mem starts
RunOffset(mem, k) == IF k = 1 THEN 0 ELSE RunOffset(mem, k - 1) + mem[k - 1][2]

\* memcpy(entry->dataBlockRef, data, dataSize): the bytes afterwards, run-length
\* encoded again; they change value only where a run of mem or the copied
\* range starts or ends
MemWrite(mem, ptr, data) ==
    LET val(a) == IF a >= ptr /\ a < ptr + data.size THEN data.fill ELSE ByteAt(mem, a)
        cand == {0, ptr, ptr + data.size} \cup {RunOffset(mem, k) : k \in 1..Len(mem)}
        starts == {a \in cand \cap (0..(PoolBytes - 1)) : a = 0 \/ val(a) # val(a - 1)}
        n == Cardinality(starts)
        start(k) == CHOOSE a \in starts : Cardinality({b \in starts : b < a}) = k - 1
        end(k) == IF k = n THEN PoolBytes ELSE start(k + 1)
    IN [k \in 1..n |-> <<val(start(k)), end(k) - start(k)>>]

\* memcpy(buffer, entry->dataBlockRef, copySize)
MemRead(mem, ptr, copySize) == [k \in 1..copySize |-> ByteAt(mem, ptr + k - 1)]

\* the bytes of a value handed to SlotWrite
BytesOf(data) == [k \in 1..data.size |-> data.fill]

(***************************************************************************)
(* Slot manager: operations                                                *)
(***************************************************************************)
SlotInit ==
    /\ slotTable = [i \in 0..(MaxSlots - 1) |-> EmptyEntry]
    /\ nextSlotId = 1
    /\ activeSlots = 0
    /\ freeBlocks = [b \in 0..(PoolBlocks - 1) |-> FALSE]
    /\ poolMem = <<<<0, PoolBytes>>>>
    /\ lastOp = [op |-> "None", handle |-> [slotId |-> 0, typeTag |-> 0, generation |-> 0],
                 result |-> "SLOT_SUCCESS", out |-> <<>>, bufferSize |-> 0]
    /\ issued = [i \in 0..(MaxSlots - 1) |-> <<>>]
    /\ released = {}
    /\ lastWritten = [s \in 1..MaxSlotId |-> NoData]

Op(op, handle, result, out, bufferSize) ==
    [op |-> op, handle |-> handle, result |-> result, out |-> out, bufferSize |-> bufferSize]

\* the call itself, on the variables of the slot manager
SlotClaimOp(type) ==
    /\ nextSlotId <= MaxSlotId
    /\ LET i == FindEmpty(slotTable)
       IN IF i = -1
          THEN /\ lastOp' = Op("Claim", [slotId |-> 0, typeTag |-> type, generation |-> 0],
                               "SLOT_ERROR_OUT_OF_MEMORY", <<>>, 0)
               /\ UNCHANGED <<slotTable, nextSlotId, activeSlots, freeBlocks, poolMem,
                              issued, released, lastWritten>>
          ELSE LET handle == [slotId |-> ClaimSlotId(nextSlotId, i), typeTag |-> type,
                              generation |-> ClaimGeneration(slotTable, i)]
               IN /\ slotTable' = [slotTable EXCEPT ![i] =
                                     [@ EXCEPT !.slotId = handle.slotId, !.typeTag = type,
                                               !.occupied = TRUE, !.dataBlockRef = NULL]]
                  /\ nextSlotId' = nextSlotId + 1
                  /\ activeSlots' = activeSlots + 1
                  /\ issued' = [issued EXCEPT ![i] = Append(@, handle)]
                  /\ lastOp' = Op("Claim", handle, "SLOT_SUCCESS", <<>>, 0)
                  /\ UNCHANGED <<freeBlocks, poolMem, released, lastWritten>>

SlotClaim(type) ==
    /\ UNCHANGED <<schedVars, partyVars, poolVars, raceVars, secureScopeVars, secVars>>
    /\ SlotClaimOp(type)

SlotWrite(handle, data) ==
    /\ UNCHANGED <<schedVars, partyVars, poolVars, raceVars, secureScopeVars, secVars>>
    /\ LET i == FindSlot(slotTable, handle)
           fail(err) == /\ lastOp' = Op("Write", handle, err, <<>>, 0)
                        /\ UNCHANGED <<slotTable, nextSlotId, activeSlots, freeBlocks,
                                       poolMem, issued, released, lastWritten>>
       IN IF i = -1 THEN fail("SLOT_ERROR_SLOT_NOT_FOUND")
          ELSE IF slotTable[i].typeTag # handle.typeTag THEN fail("SLOT_ERROR_TYPE_MISMATCH")
          ELSE LET alloc == IF slotTable[i].dataBlockRef = NULL
                            THEN AllocateMemoryBlock(freeBlocks, data.size)
                            ELSE [ptr |-> slotTable[i].dataBlockRef, fb |-> freeBlocks]
               IN IF alloc.ptr = NULL THEN fail("SLOT_ERROR_OUT_OF_MEMORY")
                  ELSE \* a copy that runs past the end of the pool is undefined
                       \* behaviour of memcpy and is left out of the model
                       /\ alloc.ptr + data.size <= PoolBytes
                       /\ slotTable' = [slotTable EXCEPT
                             ![i].dataBlockRef = alloc.ptr,
                             ![i].reserved = IF slotTable[i].dataBlockRef = NULL
                                             THEN BlocksFor(data.size) * BlockSize ELSE @]
                       /\ freeBlocks' = alloc.fb
                       /\ poolMem' = MemWrite(poolMem, alloc.ptr, data)
                       /\ lastWritten' = [lastWritten EXCEPT ![handle.slotId] = data]
                       /\ lastOp' = Op("Write", handle, "SLOT_SUCCESS", <<>>, 0)
                       /\ UNCHANGED <<nextSlotId, activeSlots, issued, released>>

\* the call itself, on the variables of the slot manager
SlotReadOp(handle, bufferSize) ==
    /\ LET i == FindSlot(slotTable, handle)
           ret(err, out) == /\ lastOp' = Op("Read", handle, err, out, bufferSize)
                            /\ UNCHANGED <<slotTable, nextSlotId, activeSlots, freeBlocks,
                                           poolMem, issued, released, lastWritten>>
       IN IF i = -1 THEN ret("SLOT_ERROR_SLOT_NOT_FOUND", <<>>)
          ELSE IF slotTable[i].typeTag # handle.typeTag THEN ret("SLOT_ERROR_TYPE_MISMATCH", <<>>)
          ELSE IF slotTable[i].dataBlockRef = NULL THEN ret("SLOT_ERROR_SLOT_NOT_FOUND", <<>>)
          ELSE LET copySize == Min(TypeGetSize(slotTable[i].typeTag), bufferSize)
               IN ret("SLOT_SUCCESS", MemRead(poolMem, slotTable[i].dataBlockRef, copySize))

SlotRead(handle, bufferSize) ==
    /\ UNCHANGED <<schedVars, partyVars, poolVars, raceVars, secureScopeVars, secVars>>
    /\ SlotReadOp(handle, bufferSize)

\* the call itself, on the variables of the slot manager
SlotReleaseOp(handle) ==
    /\ LET i == FindSlot(slotTable, handle)
       IN IF i = -1
          THEN /\ lastOp' = Op("Release", handle, "SLOT_ERROR_SLOT_NOT_FOUND", <<>>, 0)
               /\ UNCHANGED <<slotTable, nextSlotId, activeSlots, freeBlocks, poolMem,
                              issued, released, lastWritten>>
          ELSE /\ freeBlocks' = IF slotTable[i].dataBlockRef # NULL
                                THEN DeallocateMemoryBlock(freeBlocks, slotTable[i].dataBlockRef,
                                                           TypeGetSize(slotTable[i].typeTag))
                                ELSE freeBlocks
               /\ slotTable' = [slotTable EXCEPT ![i] = EmptyEntry]
               /\ activeSlots' = activeSlots - 1
               /\ released' = released \cup {handle}
               /\ lastWritten' = [lastWritten EXCEPT ![handle.slotId] = NoData]
               /\ lastOp' = Op("Release", handle, "SLOT_SUCCESS", <<>>, 0)
               /\ UNCHANGED <<nextSlotId, poolMem, issued>>

SlotRelease(handle) ==
    /\ UNCHANGED <<schedVars, partyVars, poolVars, raceVars, secureScopeVars, secVars>>
    /\ SlotReleaseOp(handle)

(***************************************************************************)
(* The fiber scheduler (scheduler.c, fiber.c).                             *)
(*                                                                         *)
(* A fiber is identified by the order of its FiberCreate call.  The record *)
(* of a fiber keeps the fields of struct Fiber that the scheduler and the  *)
(* scope read or write; pc is the position of the fiber's own code:        *)
(*   "start"    not yet entered FiberEntryPoint                            *)
(*   "body"     inside its start routine                                   *)
(*   "yielding" inside SchedulerBlock or FiberSuspend, before FiberYield   *)
(*   "done"     start routine returned and state set to DONE (line 39)     *)
(*   "finished" switched out from the SchedulerYield of line 42            *)
(* FiberSwitchContext and the FiberYield/SchedulerYield pair are modelled  *)
(* as the transfer of control between the worker loop and the fiber; the   *)
(* assignments around them are the ones of the code.  A freed record keeps *)
(* its contents, and a step that touches it may also crash the process.    *)
(* FiberGetCurrent() is the thread-local tlsCurrentFiber, which only       *)
(* FiberEntryPoint sets (fiber.c line 30): on a worker it names the fiber  *)
(* last started there, on any other thread it is NULL.                     *)
(***************************************************************************)
Workers == 0..(NumWorkers - 1)
FiberIds == 1..MaxFibers
ScopeIds == 1..MaxScopes

\* cancelCalled is history: FiberCancel has been called on the fiber or on a
\* fiber that was above it (through the parent pointers) at the time;
\* doneByCancel is history: FiberCancel found the fiber SUSPENDED or BLOCKED
NoFiber == [state |-> "NONE", isCancelled |-> FALSE, parent |-> NULL, children |-> <<>>,
            arg |-> NULL, scope |-> NULL, pc |-> "start", freed |-> FALSE,
            cancelCalled |-> FALSE, doneByCancel |-> FALSE]

\* FiberCreate: calloc, then state READY; arg is the argument of the start
\* routine and scope the scope recorded in the ScopedFiberData it points to
FiberCreate(arg, scope) == [NoFiber EXCEPT !.state = "READY", !.arg = arg, !.scope = scope]

NoScope == [created |-> FALSE, fibers |-> <<>>, isCancelled |-> FALSE, parentScope |-> NULL,
            isDisposed |-> FALSE, freed |-> FALSE, destroyPc |-> "idle", reentered |-> FALSE]

Live(f) == fibers[f].state # "NONE" /\ ~fibers[f].freed

\* ConcurrentQueuePush / ConcurrentQueuePop: a FIFO queue
ConcurrentQueuePush(queue, item) == Append(queue, item)
ConcurrentQueuePop(queue) == [item |-> IF queue = <<>> THEN NULL ELSE Head(queue),
                              queue |-> IF queue = <<>> THEN queue ELSE Tail(queue)]

RECURSIVE Subtree(_, _)
\* a fiber and all its descendants through firstChild / nextSibling
Subtree(fs, f) ==
    {f} \cup UNION {Subtree(fs, fs[f].children[k]) : k \in 1..Len(fs[f].children)}

RECURSIVE Ancestors(_, _)
\* a fiber and the fibers above it, following the parent pointers
Ancestors(fs, f) ==
    {f} \cup (IF fs[f].parent = NULL THEN {} ELSE Ancestors(fs, fs[f].parent))

\* FiberCancel without the loop over the children
CancelHitRootsOnly(fs, roots) == roots

\* the fibers FiberCancel reaches from roots: each root, and through the loop
\* over firstChild / nextSibling every fiber below it
CancelHit(fs, roots) == UNION {Subtree(fs, r) : r \in roots}

\* FiberCancel applied to each fiber of roots: isCancelled on the whole
\* subtree, SUSPENDED and BLOCKED become DONE
FiberCancel(fs, roots) ==
    LET hit == CancelHit(fs, roots)
        marked == [g \in FiberIds |->
                     IF fs[g].state # "NONE" /\ Ancestors(fs, g) \cap roots # {}
                     THEN [fs[g] EXCEPT !.cancelCalled = TRUE] ELSE fs[g]]
    IN [g \in FiberIds |->
          IF g \in hit
          THEN [marked[g] EXCEPT !.isCancelled = TRUE,
                                 !.state = IF @ \in {"SUSPENDED", "BLOCKED"} THEN "DONE" ELSE @,
                                 !.doneByCancel = @ \/ fs[g].state \in {"SUSPENDED", "BLOCKED"}]
          ELSE marked[g]]

Remove(seq, x) == SelectSeq(seq, LAMBDA y : y # x)
Range(seq) == {seq[k] : k \in 1..Len(seq)}

FiberDetachChild(fs, parent, child) ==
    IF parent = NULL \/ fs[child].parent # parent THEN fs
    ELSE [fs EXCEPT ![parent].children = Remove(@, child), ![child].parent = NULL]

\* FiberDestroy: cancel if RUNNING/READY/SUSPENDED, detach from the parent,
\* cancel the children, free
FiberDestroy(fs, f) ==
    LET a == IF fs[f].state \in {"RUNNING", "READY", "SUSPENDED"} THEN FiberCancel(fs, {f}) ELSE fs
        b == FiberDetachChild(a, a[f].parent, f)
        c == FiberCancel(b, Range(b[f].children))
    IN [c EXCEPT ![f].freed = TRUE]

\* the process may crash when a step reads or writes one of these fibers
\* after its free()
TouchFibers(fset) ==
    crashed' \in IF \E f \in fset \ {NULL} : fibers[f].freed THEN BOOLEAN ELSE {FALSE}

\* pthread_cond_signal under parkMutex, done only when parkedWorkers > 0:
\* wakes one worker that is inside pthread_cond_wait
Wakeable == {w \in Workers : workers[w].pc = "parked" /\ w \notin woken}
Signal == woken' \in IF parkedWorkers > 0 /\ Wakeable # {}
                     THEN {woken \cup {w} : w \in Wakeable}
                     ELSE {woken}

SchedInit ==
    /\ fibers = [f \in FiberIds |-> NoFiber]
    /\ nextFiber = 1
    /\ globalRunQueue = <<>>
    /\ localRunQueue = [w \in Workers |-> <<>>]
    /\ workers = [w \in Workers |-> [pc |-> "loop", currentFiber |-> NULL, tlsCurrentFiber |-> NULL,
                                     shouldStop |-> FALSE]]
    /\ parkedWorkers = 0
    /\ woken = {}
    /\ stealingVictim = 0
    /\ totalFibers = 0
    /\ activeFibers = 0
    /\ scopes = [s \in ScopeIds |-> NoScope]
    /\ spawning = [phase |-> "none", scope |-> NULL, caller |-> NULL, fiber |-> NULL]
    /\ crashed = FALSE
    /\ scheduler = [isRunning |-> TRUE, stopPc |-> "idle", ioWorker |-> "running"]

\* AsyncScopeIsCancelled: own token, else the parent's
RECURSIVE AsyncScopeIsCancelled(_, _)
AsyncScopeIsCancelled(sc, s) ==
    IF s = NULL THEN FALSE
    ELSE IF sc[s].isCancelled THEN TRUE
    ELSE AsyncScopeIsCancelled(sc, sc[s].parentScope)

\* the process may crash when a step reads or writes one of these scopes
\* after its free()
ScopeFreed(sset) == \E s \in sset \ {NULL} : scopes[s].freed

\* AsyncScopeRemoveFiber: the first entry equal to fiber is overwritten by the
\* last entry and the count decremented
AsyncScopeRemoveFiber(list, fiber) ==
    IF fiber \notin Range(list) THEN list
    ELSE LET i == CHOOSE k \in 1..Len(list) : list[k] = fiber /\ \A j \in 1..(k - 1) : list[j] # fiber
         IN SubSeq([list EXCEPT ![i] = list[Len(list)]], 1, Len(list) - 1)

(***************************************************************************)
(* WorkerThreadMain, one action per step of its loop.                      *)
(***************************************************************************)
\* lines 36-42 and 65-70: pop the local queue, else the global queue; set the
\* fiber RUNNING and switch to it
WorkerFetch(w) ==
    /\ ~crashed
    /\ workers[w].pc = "loop"
    /\ ~workers[w].shouldStop
    /\ LET l == ConcurrentQueuePop(localRunQueue[w])
           g == ConcurrentQueuePop(globalRunQueue)
           fiber == IF l.item # NULL THEN l.item ELSE g.item
       IN /\ fiber # NULL
          /\ localRunQueue' = [localRunQueue EXCEPT ![w] = l.queue]
          /\ globalRunQueue' = IF l.item # NULL THEN globalRunQueue ELSE g.queue
          /\ workers' = [workers EXCEPT ![w].pc = "running", ![w].currentFiber = fiber]
          /\ fibers' = [fibers EXCEPT ![fiber].state = "RUNNING"]
          /\ TouchFibers({fiber})
    /\ UNCHANGED <<slotVars, secVars, partyVars, poolVars, raceVars, secureScopeVars, scheduler, nextFiber, parkedWorkers, woken, stealingVictim, totalFibers,
                   activeFibers, scopes, spawning>>

\* lines 45-49 with SchedulerStealWork: both queues were empty; a stolen fiber
\* goes to the local queue and the loop continues, otherwise the worker is
\* about to park
WorkerSteal(w) ==
    /\ ~crashed
    /\ workers[w].pc = "loop"
    /\ ~workers[w].shouldStop
    /\ localRunQueue[w] = <<>>
    /\ globalRunQueue = <<>>
    /\ LET first == stealingVictim % NumWorkers
           victimId == IF first = w THEN (first + 1) % NumWorkers ELSE first
           stolen == ConcurrentQueuePop(localRunQueue[victimId])
       IN /\ stealingVictim' = (stealingVictim + 1) % NumWorkers
          /\ IF stolen.item # NULL
             THEN /\ localRunQueue' = [[localRunQueue EXCEPT ![victimId] = stolen.queue]
                                          EXCEPT ![w] = ConcurrentQueuePush(@, stolen.item)]
                  /\ UNCHANGED workers
             ELSE /\ workers' = [workers EXCEPT ![w].pc = "toPark"]
                  /\ UNCHANGED localRunQueue
    /\ UNCHANGED <<slotVars, secVars, partyVars, poolVars, raceVars, secureScopeVars, scheduler, fibers, nextFiber, globalRunQueue, parkedWorkers, woken, totalFibers,
                   activeFibers, scopes, spawning, crashed>>

\* lines 53-58: isParked, parkedWorkers + 1, pthread_cond_wait
WorkerPark(w) ==
    /\ ~crashed
    /\ workers[w].pc = "toPark"
    /\ workers' = [workers EXCEPT ![w].pc = "parked"]
    /\ parkedWorkers' = parkedWorkers + 1
    /\ UNCHANGED <<slotVars, secVars, partyVars, poolVars, raceVars, secureScopeVars, scheduler, fibers, nextFiber, globalRunQueue, localRunQueue, woken, stealingVictim,
                   totalFibers, activeFibers, scopes, spawning, crashed>>

\* lines 60-63: woken by a signal
WorkerWake(w) ==
    /\ ~crashed
    /\ workers[w].pc = "parked"
    /\ w \in woken
    /\ workers' = [workers EXCEPT ![w].pc = "loop"]
    /\ parkedWorkers' = parkedWorkers - 1
    /\ woken' = woken \ {w}
    /\ UNCHANGED <<slotVars, secVars, partyVars, poolVars, raceVars, secureScopeVars, scheduler, fibers, nextFiber, globalRunQueue, localRunQueue, stealingVictim,
                   totalFibers, activeFibers, scopes, spawning, crashed>>

\* lines 73-99: the fiber switched back; re-queue, destroy or leave it
WorkerHandle(w) ==
    /\ ~crashed
    /\ workers[w].pc = "switched"
    /\ LET fiber == workers[w].currentFiber
           state == fibers[fiber].state
       IN /\ workers' = [workers EXCEPT ![w].pc = "loop", ![w].currentFiber = NULL]
          /\ localRunQueue' = IF state = "READY"
                              THEN [localRunQueue EXCEPT ![w] = ConcurrentQueuePush(@, fiber)]
                              ELSE localRunQueue
          /\ totalFibers' = IF state \in {"DONE", "ERROR"} THEN totalFibers - 1 ELSE totalFibers
          /\ fibers' = IF state \in {"DONE", "ERROR"} THEN FiberDestroy(fibers, fiber) ELSE fibers
          /\ TouchFibers({fiber} \cup (IF state \in {"DONE", "ERROR"}
                                       THEN {fibers[fiber].parent} \cup Range(fibers[fiber].children)
                                       ELSE {}))
    /\ UNCHANGED <<slotVars, secVars, partyVars, poolVars, raceVars, secureScopeVars, scheduler, nextFiber, globalRunQueue, parkedWorkers, woken, stealingVictim,
                   activeFibers, scopes, spawning>>

(***************************************************************************)
(* The code of a fiber, run by the worker that switched to it.             *)
(***************************************************************************)
\* the routine of the fiber is RaceWorker and has not been through it yet
RaceWorkerPending(fiber) ==
    /\ race.pc # "idle"
    /\ fibers[fiber].scope = race.scope
    /\ fiber \notin race.exited

\* worker w is inside a fiber that is not in the middle of AsyncScopeSpawn
InFiber(w, pcs) ==
    /\ ~crashed
    /\ workers[w].pc = "running"
    /\ spawning.caller # w
    /\ fibers[workers[w].currentFiber].pc \in pcs

\* FiberEntryPoint lines 26-36 and, for a fiber made by AsyncScopeSpawn,
\* ScopedFiberWrapper lines 147-158
FiberEntryPoint(w) ==
    /\ InFiber(w, {"start"})
    /\ LET fiber == workers[w].currentFiber
           scope == fibers[fiber].scope
           cancelled == AsyncScopeIsCancelled(scopes, scope)
       IN /\ workers' = [workers EXCEPT ![w].tlsCurrentFiber = fiber]
          /\ fibers' = [fibers EXCEPT ![fiber].state = IF cancelled THEN "DONE" ELSE "RUNNING",
                                      ![fiber].pc = IF cancelled THEN "done" ELSE "body"]
          /\ crashed' \in IF fibers[fiber].freed \/ ScopeFreed({scope}) THEN BOOLEAN ELSE {FALSE}
    /\ UNCHANGED <<slotVars, secVars, partyVars, poolVars, raceVars, secureScopeVars, scheduler, nextFiber, globalRunQueue, localRunQueue, parkedWorkers, woken,
                   stealingVictim, totalFibers, activeFibers, scopes, spawning>>

\* the start routine returns: ScopedFiberWrapper lines 164-165, then
\* FiberEntryPoint line 39
FiberReturn(w) ==
    /\ InFiber(w, {"body"})
    /\ ~RaceWorkerPending(workers[w].currentFiber)
    /\ LET fiber == workers[w].currentFiber
           scope == fibers[fiber].scope
       IN /\ fibers' = [fibers EXCEPT ![fiber].state = "DONE", ![fiber].pc = "done"]
          /\ scopes' = IF scope = NULL THEN scopes
                       ELSE [scopes EXCEPT ![scope].fibers =
                                AsyncScopeRemoveFiber(@, workers[w].tlsCurrentFiber)]
          /\ crashed' \in IF fibers[fiber].freed \/ ScopeFreed({scope}) THEN BOOLEAN ELSE {FALSE}
    /\ UNCHANGED <<slotVars, secVars, partyVars, poolVars, raceVars, secureScopeVars, scheduler, nextFiber, globalRunQueue, localRunQueue, workers, parkedWorkers, woken,
                   stealingVictim, totalFibers, activeFibers, spawning>>

\* SchedulerYield, called by the routine, by FiberYield at the end of
\* SchedulerBlock / FiberSuspend, or by FiberEntryPoint line 42: the fiber
\* FiberGetCurrent() names becomes READY and control goes back to the worker.
\* With no current fiber the call returns at once, and after line 42 that
\* runs into assert(0).
SchedulerYield(w) ==
    /\ InFiber(w, {"body", "yielding", "done"})
    /\ LET fiber == workers[w].currentFiber
           current == workers[w].tlsCurrentFiber
       IN IF current = NULL
          THEN /\ fibers[fiber].pc # "body"
               /\ fibers' = [fibers EXCEPT ![fiber].pc = "body"]
               /\ crashed' = (fibers[fiber].pc = "done")
               /\ UNCHANGED workers
          ELSE /\ fibers' = [[fibers EXCEPT ![current].state = "READY"]
                                EXCEPT ![fiber].pc = IF @ = "done" THEN "finished" ELSE "body"]
               /\ workers' = [workers EXCEPT ![w].pc = "switched"]
               /\ TouchFibers({current, fiber})
    /\ UNCHANGED <<slotVars, secVars, partyVars, poolVars, raceVars, secureScopeVars, scheduler, nextFiber, globalRunQueue, localRunQueue, parkedWorkers, woken,
                   stealingVictim, totalFibers, activeFibers, scopes, spawning>>

\* a fiber switched to again after the SchedulerYield of line 42: assert(0)
FiberAbort(w) ==
    /\ InFiber(w, {"finished"})
    /\ crashed' = TRUE
    /\ UNCHANGED <<slotVars, secVars, partyVars, poolVars, raceVars, secureScopeVars, scheduler, fibers, nextFiber, globalRunQueue, localRunQueue, workers, parkedWorkers,
                   woken, stealingVictim, totalFibers, activeFibers, scopes, spawning>>

\* SchedulerBlock(FiberGetCurrent()) up to its FiberYield
SchedulerBlockSelf(w) ==
    /\ InFiber(w, {"body"})
    /\ workers[w].tlsCurrentFiber # NULL
    /\ fibers' = [[fibers EXCEPT ![workers[w].tlsCurrentFiber].state = "BLOCKED"]
                     EXCEPT ![workers[w].currentFiber].pc = "yielding"]
    /\ TouchFibers({workers[w].tlsCurrentFiber})
    /\ UNCHANGED <<slotVars, secVars, partyVars, poolVars, raceVars, secureScopeVars, scheduler, nextFiber, globalRunQueue, localRunQueue, workers, parkedWorkers, woken,
                   stealingVictim, totalFibers, activeFibers, scopes, spawning>>

\* FiberSuspend(FiberGetCurrent()) up to its FiberYield
FiberSuspendSelf(w) ==
    /\ InFiber(w, {"body"})
    /\ workers[w].tlsCurrentFiber # NULL
    /\ fibers[workers[w].tlsCurrentFiber].state = "RUNNING"
    /\ fibers' = [[fibers EXCEPT ![workers[w].tlsCurrentFiber].state = "SUSPENDED"]
                     EXCEPT ![workers[w].currentFiber].pc = "yielding"]
    /\ TouchFibers({workers[w].tlsCurrentFiber})
    /\ UNCHANGED <<slotVars, secVars, partyVars, poolVars, raceVars, secureScopeVars, scheduler, nextFiber, globalRunQueue, localRunQueue, workers, parkedWorkers, woken,
                   stealingVictim, totalFibers, activeFibers, scopes, spawning>>

(***************************************************************************)
(* Calls made from outside the fiber they name: the I/O thread, the main   *)
(* thread or another fiber.                                                *)
(***************************************************************************)
\* SchedulerSpawnWithPriority applied to the next fiber record
SpawnInto(fs, arg, scope) == [fs EXCEPT ![nextFiber] = FiberCreate(arg, scope)]

\* the fiber records an AsyncScopeSpawn under way is still going to make
SpawnReserved == IF spawning.phase = "create" THEN 2
                 ELSE IF spawning.phase = "schedule" THEN 1 ELSE 0

SchedulerSpawn ==
    /\ ~crashed
    /\ nextFiber <= MaxSpawned
    /\ nextFiber + SpawnReserved <= MaxFibers
    /\ fibers' = SpawnInto(fibers, NULL, NULL)
    /\ nextFiber' = nextFiber + 1
    /\ totalFibers' = totalFibers + 1
    /\ activeFibers' = activeFibers + 1
    /\ globalRunQueue' = ConcurrentQueuePush(globalRunQueue, nextFiber)
    /\ Signal
    /\ UNCHANGED <<slotVars, secVars, partyVars, poolVars, raceVars, secureScopeVars, scheduler, localRunQueue, workers, parkedWorkers, stealingVictim, scopes, spawning,
                   crashed>>

\* SchedulerBlock(fiber) by a caller whose current fiber is not fiber
SchedulerBlock(fiber) ==
    /\ ~crashed
    /\ Live(fiber)
    /\ fibers[fiber].state # "BLOCKED"
    /\ fibers' = [fibers EXCEPT ![fiber].state = "BLOCKED"]
    /\ UNCHANGED <<slotVars, secVars, partyVars, poolVars, raceVars, secureScopeVars, scheduler, nextFiber, globalRunQueue, localRunQueue, workers, parkedWorkers, woken,
                   stealingVictim, totalFibers, activeFibers, scopes, spawning, crashed>>

SchedulerUnblock(fiber) ==
    /\ ~crashed
    /\ Live(fiber)
    /\ fibers[fiber].state = "BLOCKED"
    /\ Len(globalRunQueue) < MaxQueue
    /\ fibers' = [fibers EXCEPT ![fiber].state = "READY"]
    /\ globalRunQueue' = ConcurrentQueuePush(globalRunQueue, fiber)
    /\ Signal
    /\ UNCHANGED <<slotVars, secVars, partyVars, poolVars, raceVars, secureScopeVars, scheduler, nextFiber, localRunQueue, workers, parkedWorkers, stealingVictim,
                   totalFibers, activeFibers, scopes, spawning, crashed>>

\* FiberSuspend(fiber) by a caller whose current fiber is not fiber
FiberSuspend(fiber) ==
    /\ ~crashed
    /\ Live(fiber)
    /\ fibers[fiber].state = "RUNNING"
    /\ fibers' = [fibers EXCEPT ![fiber].state = "SUSPENDED"]
    /\ UNCHANGED <<slotVars, secVars, partyVars, poolVars, raceVars, secureScopeVars, scheduler, nextFiber, globalRunQueue, localRunQueue, workers, parkedWorkers, woken,
                   stealingVictim, totalFibers, activeFibers, scopes, spawning, crashed>>

\* FiberResume: READY, then SchedulerUnblock, which returns at once because
\* the state is no longer BLOCKED
FiberResume(fiber) ==
    /\ ~crashed
    /\ Live(fiber)
    /\ fibers[fiber].state = "SUSPENDED"
    /\ fibers' = [fibers EXCEPT ![fiber].state = "READY"]
    /\ UNCHANGED <<slotVars, secVars, partyVars, poolVars, raceVars, secureScopeVars, scheduler, nextFiber, globalRunQueue, localRunQueue, workers, parkedWorkers, woken,
                   stealingVictim, totalFibers, activeFibers, scopes, spawning, crashed>>

\* FiberCancel(fiber) called by any thread or fiber that holds the pointer
FiberCancelCall(fiber) ==
    /\ ~crashed
    /\ Live(fiber)
    /\ fibers' = FiberCancel(fibers, {fiber})
    /\ UNCHANGED <<slotVars, secVars, partyVars, poolVars, raceVars, secureScopeVars, scheduler, nextFiber, globalRunQueue, localRunQueue, workers, parkedWorkers, woken,
                   stealingVictim, totalFibers, activeFibers, scopes, spawning, crashed>>

WorkerNext(w) ==
    \/ WorkerFetch(w)
    \/ WorkerSteal(w)
    \/ WorkerPark(w)
    \/ WorkerWake(w)
    \/ WorkerHandle(w)
    \/ FiberEntryPoint(w)
    \/ FiberReturn(w)
    \/ SchedulerYield(w)
    \/ FiberAbort(w)

(***************************************************************************)
(* The async scope (async_scope.c).                                        *)
(***************************************************************************)
AsyncScopeCreate(s, parent) ==
    /\ ~crashed
    /\ ~scopes[s].created
    /\ \A t \in ScopeIds : t < s => scopes[t].created
    /\ parent # NULL => (scopes[parent].created /\ ~scopes[parent].freed)
    /\ scopes' = [scopes EXCEPT ![s] = [NoScope EXCEPT !.created = TRUE, !.parentScope = parent]]
    /\ UNCHANGED <<slotVars, secVars, partyVars, poolVars, raceVars, secureScopeVars, scheduler, fibers, nextFiber, globalRunQueue, localRunQueue, workers, parkedWorkers,
                   woken, stealingVictim, totalFibers, activeFibers, spawning, crashed>>

\* who can call AsyncScopeSpawn: a thread that is not a fiber (NULL) or the
\* fiber running on a worker
SpawnCallers == {NULL} \cup {w \in Workers : InFiber(w, {"body"})}

\* AsyncScopeSpawnWithPriority lines 175-182: the checks
AsyncScopeSpawnCheck(s, caller) ==
    /\ ~crashed
    /\ spawning.phase = "none"
    /\ scopes[s].created /\ ~scopes[s].freed
    /\ ~scopes[s].isDisposed
    /\ ~AsyncScopeIsCancelled(scopes, s)
    /\ nextFiber + 1 <= MaxFibers
    /\ spawning' = [phase |-> "create", scope |-> s, caller |-> caller, fiber |-> NULL]
    /\ UNCHANGED <<slotVars, secVars, partyVars, poolVars, raceVars, secureScopeVars, scheduler, fibers, nextFiber, globalRunQueue, localRunQueue, workers, parkedWorkers,
                   woken, stealingVictim, totalFibers, activeFibers, scopes, crashed>>

\* lines 185-212: the wrapper data, FiberCreate(ScopedFiberWrapper, data) and
\* FiberAttachChild to the caller's current fiber.  The data is identified
\* by the fiber made here.
AsyncScopeSpawnCreate ==
    /\ ~crashed
    /\ spawning.phase = "create"
    /\ LET parent == IF spawning.caller = NULL THEN NULL
                     ELSE workers[spawning.caller].tlsCurrentFiber
           made == [FiberCreate(nextFiber, spawning.scope) EXCEPT !.parent = parent]
       IN /\ fibers' = IF parent = NULL THEN [fibers EXCEPT ![nextFiber] = made]
                       ELSE [fibers EXCEPT ![nextFiber] = made,
                                           ![parent].children = <<nextFiber>> \o @]
          /\ TouchFibers({parent})
    /\ nextFiber' = nextFiber + 1
    /\ spawning' = [spawning EXCEPT !.phase = "schedule", !.fiber = nextFiber]
    /\ UNCHANGED <<slotVars, secVars, partyVars, poolVars, raceVars, secureScopeVars, scheduler, globalRunQueue, localRunQueue, workers, parkedWorkers, woken,
                   stealingVictim, totalFibers, activeFibers, scopes>>

\* lines 215-222: AsyncScopeAddFiber, then SchedulerSpawnWithPriority with the
\* start routine and argument of the fiber just made
AsyncScopeSpawnSchedule ==
    /\ ~crashed
    /\ spawning.phase = "schedule"
    /\ scopes' = [scopes EXCEPT ![spawning.scope].fibers = Append(@, spawning.fiber)]
    /\ fibers' = SpawnInto(fibers, fibers[spawning.fiber].arg, fibers[spawning.fiber].scope)
    /\ nextFiber' = nextFiber + 1
    /\ totalFibers' = totalFibers + 1
    /\ activeFibers' = activeFibers + 1
    /\ globalRunQueue' = ConcurrentQueuePush(globalRunQueue, nextFiber)
    /\ Signal
    /\ crashed' \in IF ScopeFreed({spawning.scope}) THEN BOOLEAN ELSE {FALSE}
    /\ spawning' = [phase |-> "none", scope |-> NULL, caller |-> NULL, fiber |-> NULL]
    /\ UNCHANGED <<slotVars, secVars, partyVars, poolVars, raceVars, secureScopeVars, scheduler, localRunQueue, workers, parkedWorkers, stealingVictim>>

AsyncScopeCancel(s) ==
    /\ ~crashed
    /\ scopes[s].created /\ ~scopes[s].freed
    /\ scopes' = [scopes EXCEPT ![s].isCancelled = TRUE]
    /\ fibers' = FiberCancel(fibers, Range(scopes[s].fibers))
    /\ UNCHANGED <<slotVars, secVars, partyVars, poolVars, raceVars, secureScopeVars, scheduler, nextFiber, globalRunQueue, localRunQueue, workers, parkedWorkers, woken,
                   stealingVictim, totalFibers, activeFibers, spawning, crashed>>

\* AsyncScopeDestroy lines 53-63, called by a thread that is not a fiber:
\* isDisposed, then AsyncScopeCancel
AsyncScopeDestroyBegin(s) ==
    /\ ~crashed
    /\ scopes[s].created /\ ~scopes[s].freed
    /\ scopes[s].destroyPc = "idle"
    /\ ~scopes[s].isDisposed
    /\ scopes' = [scopes EXCEPT ![s].isDisposed = TRUE, ![s].isCancelled = TRUE,
                                ![s].destroyPc = "waiting"]
    /\ fibers' = FiberCancel(fibers, Range(scopes[s].fibers))
    /\ UNCHANGED <<slotVars, secVars, partyVars, poolVars, raceVars, secureScopeVars, scheduler, nextFiber, globalRunQueue, localRunQueue, workers, parkedWorkers, woken,
                   stealingVictim, totalFibers, activeFibers, spawning, crashed>>

\* lines 66-79: AsyncScopeWaitAll sees fiberCount = 0, the scope is freed and
\* the call returns
AsyncScopeDestroyEnd(s) ==
    /\ ~crashed
    /\ scopes[s].destroyPc = "waiting"
    /\ Len(scopes[s].fibers) = 0
    /\ scopes' = [scopes EXCEPT ![s].freed = TRUE, ![s].destroyPc = "returned"]
    /\ UNCHANGED <<slotVars, secVars, partyVars, poolVars, raceVars, secureScopeVars, scheduler, fibers, nextFiber, globalRunQueue, localRunQueue, workers, parkedWorkers,
                   woken, stealingVictim, totalFibers, activeFibers, spawning, crashed>>

\* AsyncScopeDestroy called again on a scope whose first call has returned:
\* lines 53-57 lock scope->disposeMutex and read scope->isDisposed, in the
\* memory that line 79 of the first call freed and with the mutex that its
\* line 71 destroyed.  (While the first call is in AsyncScopeWaitAll it holds
\* disposeMutex and a second call waits at line 53.)
AsyncScopeDestroyAgain(s) ==
    /\ ~crashed
    /\ scopes[s].destroyPc = "returned"
    /\ ~scopes[s].reentered
    /\ scopes' = [scopes EXCEPT ![s].reentered = TRUE]
    /\ crashed' \in IF ScopeFreed({s}) THEN BOOLEAN ELSE {FALSE}
    /\ UNCHANGED <<slotVars, secVars, partyVars, poolVars, raceVars, secureScopeVars, scheduler, fibers, nextFiber, globalRunQueue, localRunQueue, workers,
                   parkedWorkers, woken, stealingVictim, totalFibers, activeFibers, spawning>>

(***************************************************************************)
(* SchedulerStop (scheduler.c lines 263-288), called by a thread that is   *)
(* not a worker, and the exits of the threads it joins.                    *)
(***************************************************************************)
\* line 32: the loop test of WorkerThreadMain finds shouldStop set
WorkerExit(w) ==
    /\ ~crashed
    /\ workers[w].pc = "loop"
    /\ workers[w].shouldStop
    /\ workers' = [workers EXCEPT ![w].pc = "exited"]
    /\ UNCHANGED <<slotVars, secVars, partyVars, poolVars, raceVars, secureScopeVars, scheduler, fibers, nextFiber, globalRunQueue, localRunQueue, parkedWorkers,
                   woken, stealingVictim, totalFibers, activeFibers, scopes, spawning, crashed>>

\* IoWorkerMain line 111: epoll_wait times out every 100 ms and the loop test
\* finds isRunning cleared
IoWorkerExit ==
    /\ ~crashed
    /\ scheduler.ioWorker = "running"
    /\ ~scheduler.isRunning
    /\ scheduler' = [scheduler EXCEPT !.ioWorker = "exited"]
    /\ UNCHANGED <<slotVars, secVars, partyVars, poolVars, raceVars, secureScopeVars, fibers, nextFiber, globalRunQueue, localRunQueue, workers, parkedWorkers,
                   woken, stealingVictim, totalFibers, activeFibers, scopes, spawning, crashed>>

\* lines 265-274: isRunning cleared and every worker's shouldStop set
SchedulerStopSignal ==
    /\ ~crashed
    /\ scheduler.stopPc = "idle"
    /\ scheduler.isRunning
    /\ scheduler' = [scheduler EXCEPT !.isRunning = FALSE, !.stopPc = "flagged"]
    /\ workers' = [w \in Workers |-> [workers[w] EXCEPT !.shouldStop = TRUE]]
    /\ UNCHANGED <<slotVars, secVars, partyVars, poolVars, raceVars, secureScopeVars, fibers, nextFiber, globalRunQueue, localRunQueue, parkedWorkers, woken,
                   stealingVictim, totalFibers, activeFibers, scopes, spawning, crashed>>

\* lines 277-279: pthread_cond_broadcast under parkMutex wakes the workers
\* that are inside pthread_cond_wait
SchedulerStopBroadcast ==
    /\ ~crashed
    /\ scheduler.stopPc = "flagged"
    /\ scheduler' = [scheduler EXCEPT !.stopPc = "joining"]
    /\ woken' = woken \cup {w \in Workers : workers[w].pc = "parked"}
    /\ UNCHANGED <<slotVars, secVars, partyVars, poolVars, raceVars, secureScopeVars, fibers, nextFiber, globalRunQueue, localRunQueue, workers, parkedWorkers,
                   stealingVictim, totalFibers, activeFibers, scopes, spawning, crashed>>

\* lines 282-287: the pthread_join of every worker and of the I/O thread
\* have returned
SchedulerStopJoin ==
    /\ ~crashed
    /\ scheduler.stopPc = "joining"
    /\ \A w \in Workers : workers[w].pc = "exited"
    /\ scheduler.ioWorker = "exited"
    /\ scheduler' = [scheduler EXCEPT !.stopPc = "returned"]
    /\ UNCHANGED <<slotVars, secVars, partyVars, poolVars, raceVars, secureScopeVars, fibers, nextFiber, globalRunQueue, localRunQueue, workers, parkedWorkers,
                   woken, stealingVictim, totalFibers, activeFibers, scopes, spawning, crashed>>

(***************************************************************************)
(* The security context (slot_security.c, slot_security.h).                *)
(*                                                                         *)
(* A HardwareFingerprint is the sequence of its bytes; hardware is what    *)
(* the platform probes of HardwareFingerprintGenerate yield at the moment. *)
(* SHA-256 is taken to be collision free: the digest of a message is the   *)
(* message.  /dev/urandom and the hash functions are taken not to fail.    *)
(***************************************************************************)
SECURITY_LEVEL_BASIC == 1
SECURITY_LEVEL_HARDWARE == 2
SECURITY_LEVEL_ENCRYPTED == 3
SECURITY_DEFAULT_TOKEN_TTL_MS == 300000

SecurityLevels == {SECURITY_LEVEL_BASIC, SECURITY_LEVEL_HARDWARE, SECURITY_LEVEL_ENCRYPTED}
Fingerprints == {<<17, 34>>, <<17, 35>>}
Randoms == {0, 1}
SecureSlotIds == {1, 2}
TickMicros == 200 * 1000000
Half == 65536

\* A uint32_t is kept as the pair <<high 16 bits, low 16 bits>>.
Word(n) == <<n \div Half, n % Half>>

RECURSIVE Xor(_, _)
Xor(a, b) == IF a = 0 THEN b
             ELSE IF b = 0 THEN a
             ELSE (((a % 2) + (b % 2)) % 2) + 2 * Xor(a \div 2, b \div 2)

Xor32(v, w) == <<Xor(v[1], w[1]), Xor(v[2], w[2])>>

\* (hash << 1) | (hash >> 31) on a uint32_t
RotateLeft1(hash) == <<((hash[1] * 2) % Half) + (hash[2] \div (Half \div 2)),
                       ((hash[2] * 2) % Half) + (hash[1] \div (Half \div 2))>>

\* HardwareFingerprintHash: from 0x12345678, xor each byte in and rotate
\* left by one
RECURSIVE HardwareFingerprintHashFrom(_, _, _)
HardwareFingerprintHashFrom(hash, fingerprint, i) ==
    IF i > Len(fingerprint) THEN hash
    ELSE HardwareFingerprintHashFrom(RotateLeft1(Xor32(hash, Word(fingerprint[i]))), fingerprint, i + 1)

HardwareFingerprintHash(fingerprint) == HardwareFingerprintHashFrom(<<4660, 22136>>, fingerprint, 1)

HardwareFingerprintCompare(fp1, fp2) == fp1 = fp2

SecureHashSHA256(input) == input

\* the expiry of a capability issued at issuedTime (TokenGenerate lines 206-219)
TokenExpiry(level, issuedTime) ==
    issuedTime + SECURITY_DEFAULT_TOKEN_TTL_MS *
        (CASE level = SECURITY_LEVEL_BASIC -> 1000
           [] level = SECURITY_LEVEL_HARDWARE -> 500
           [] level = SECURITY_LEVEL_ENCRYPTED -> 200)

\* TokenGenerate: the capability and the context after the call; random is
\* what SecureRandomGenerate delivered
TokenGenerate(ctx, slotId, level, time, random) ==
    LET generation == Word(ctx.tokensIssued + 1)
    IN [result |-> "SECURITY_SUCCESS",
        context |-> [ctx EXCEPT !.tokensIssued = @ + 1],
        capability |->
            [slotId |-> slotId, level |-> level, issuedTime |-> time,
             expiryTime |-> TokenExpiry(level, time),
             canRead |-> TRUE, canWrite |-> TRUE, canTransfer |-> FALSE,
             token |-> [tokenData |-> SecureHashSHA256(<<ctx.hwFingerprint, slotId, time, random>>),
                        generation |-> generation,
                        checksum |-> Xor32(HardwareFingerprintHash(ctx.hwFingerprint), generation)]]]

\* TokenCompareSecure: all bytes of the two SecureToken equal
TokenCompareSecure(token1, token2) == token1 = token2

\* a validation that is not bound to the slot: neither the slot id test nor
\* the comparison with a token regenerated for slotId
TokenValidateUnbound(ctx, slotId, capability, currentTime, currentFingerprint, random) ==
    LET counted == [ctx EXCEPT !.tokensValidated = @ + 1]
        expectedChecksum == Xor32(HardwareFingerprintHash(ctx.hwFingerprint), capability.token.generation)
    IN IF capability.expiryTime > 0 /\ currentTime > capability.expiryTime
       THEN [result |-> "SECURITY_ERROR_TOKEN_EXPIRED", context |-> counted]
       ELSE IF /\ capability.level >= SECURITY_LEVEL_HARDWARE
               /\ ~HardwareFingerprintCompare(ctx.hwFingerprint, currentFingerprint)
       THEN [result |-> "SECURITY_ERROR_HARDWARE_MISMATCH", context |-> counted]
       ELSE IF capability.token.checksum # expectedChecksum
       THEN [result |-> "SECURITY_ERROR_INVALID_TOKEN", context |-> counted]
       ELSE [result |-> "SECURITY_SUCCESS", context |-> counted]

\* a validation without the hardware binding test
TokenValidateAnyHardware(ctx, slotId, capability, currentTime, currentFingerprint, random) ==
    LET counted == [ctx EXCEPT !.tokensValidated = @ + 1]
    IN IF capability.expiryTime > 0 /\ currentTime > capability.expiryTime
       THEN [result |-> "SECURITY_ERROR_TOKEN_EXPIRED", context |-> counted]
       ELSE IF capability.slotId # slotId
       THEN [result |-> "SECURITY_ERROR_INVALID_TOKEN", context |-> counted]
       ELSE [result |-> "SECURITY_SUCCESS", context |-> counted]

\* TokenValidate: the result and the context after the call; currentTime is
\* SecureTimestamp(), currentFingerprint what HardwareFingerprintGenerate
\* yields and random what the TokenGenerate of line 312 draws
TokenValidate(ctx, slotId, capability, currentTime, currentFingerprint, random) ==
    LET counted == [ctx EXCEPT !.tokensValidated = @ + 1]
        failed(c) == [c EXCEPT !.validationFailures = @ + 1]
        violated(c) == [c EXCEPT !.securityViolations = @ + 1]
        expectedChecksum == Xor32(HardwareFingerprintHash(ctx.hwFingerprint), capability.token.generation)
        test == TokenGenerate(counted, slotId, capability.level, currentTime, random)
    IN IF capability.expiryTime > 0 /\ currentTime > capability.expiryTime
       THEN [result |-> "SECURITY_ERROR_TOKEN_EXPIRED", context |-> failed(counted)]
       ELSE IF capability.slotId # slotId
       THEN [result |-> "SECURITY_ERROR_INVALID_TOKEN", context |-> violated(failed(counted))]
       ELSE IF /\ capability.level >= SECURITY_LEVEL_HARDWARE
               /\ ~HardwareFingerprintCompare(ctx.hwFingerprint, currentFingerprint)
       THEN [result |-> "SECURITY_ERROR_HARDWARE_MISMATCH", context |-> violated(counted)]
       ELSE IF capability.token.checksum # expectedChecksum
       THEN [result |-> "SECURITY_ERROR_INVALID_TOKEN", context |-> violated(failed(counted))]
       ELSE IF ~TokenCompareSecure(capability.token, test.capability.token)
       THEN [result |-> "SECURITY_ERROR_INVALID_TOKEN", context |-> violated(failed(test.context))]
       ELSE [result |-> "SECURITY_SUCCESS", context |-> test.context]

NoValidate == [result |-> "NONE", slotId |-> NULL, capability |-> NULL, currentTime |-> 0,
               currentFingerprint |-> <<>>]

NoSecureOp == [op |-> "None", handle |-> NULL, token |-> NULL, result |-> "SLOT_SUCCESS",
               violationsBefore |-> 0, secureSlot |-> FALSE, performed |-> FALSE]

\* SecurityContextCreate: the fingerprint is taken once, the counters are 0;
\* the manager comes from SlotManagerCreateSecure with enableSecurity
SecInit ==
    /\ hardware = <<17, 34>>
    /\ context = [hwFingerprint |-> hardware, tokensIssued |-> 0, tokensValidated |-> 0,
                  validationFailures |-> 0, securityViolations |-> 0]
    /\ now = 0
    /\ issuedCaps = {}
    /\ lastValidate = NoValidate
    /\ manager = [securityEnabled |-> TRUE, securityViolations |-> 0]
    /\ lastSecureOp = NoSecureOp

\* a caller obtains a capability for a slot id
TokenGenerateCall(slotId, level, random) ==
    /\ Cardinality(issuedCaps) < MaxTokens
    /\ LET r == TokenGenerate(context, slotId, level, now, random)
       IN /\ context' = r.context
          /\ issuedCaps' = issuedCaps \cup {r.capability}
    /\ UNCHANGED <<slotVars, schedVars, partyVars, poolVars, raceVars, secureScopeVars, hardware, now, lastValidate, manager, lastSecureOp>>

\* a caller presents a capability it holds for a slot id
TokenValidateCall(slotId, random) ==
    /\ context.tokensValidated < MaxValidations
    /\ \E capability \in issuedCaps :
          LET r == TokenValidate(context, slotId, capability, now, hardware, random)
          IN /\ context' = r.context
             /\ lastValidate' = [result |-> r.result, slotId |-> slotId, capability |-> capability,
                                 currentTime |-> now, currentFingerprint |-> hardware]
    /\ UNCHANGED <<slotVars, schedVars, partyVars, poolVars, raceVars, secureScopeVars, hardware, now, issuedCaps, manager, lastSecureOp>>

\* time passes
ClockTick ==
    /\ now < MaxTicks * TickMicros
    /\ now' = now + TickMicros
    /\ UNCHANGED <<slotVars, schedVars, partyVars, poolVars, raceVars, secureScopeVars, context, hardware, issuedCaps, lastValidate, manager, lastSecureOp>>

\* the machine's hardware (CPU, board, network interface, process id) changes
HardwareChange(fingerprint) ==
    /\ fingerprint # hardware
    /\ hardware' = fingerprint
    /\ UNCHANGED <<slotVars, schedVars, partyVars, poolVars, raceVars, secureScopeVars, context, now, issuedCaps, lastValidate, manager, lastSecureOp>>

(***************************************************************************)
(* The secure slot operations (slot_manager.c from line 564).  The source  *)
(* file has lost the text between SlotMemoryBarrier and the middle of      *)
(* SlotReadSecure: SlotClaimSecure follows the specification, and          *)
(* SlotReadSecure is modelled from the point where the remaining text      *)
(* starts.  TokenEncrypt has no definition in the sources and is taken to  *)
(* succeed.                                                                *)
(***************************************************************************)
\* the "Find the slot entry" loop: the first entry with the slot id
FindEntry(table, slotId) ==
    LET hits == {i \in 0..(MaxSlots - 1) : table[i].slotId = slotId}
    IN IF hits = {} THEN -1 ELSE CHOOSE i \in hits : \A k \in hits : i <= k

\* the handle names an occupied entry whose securityEnabled is set
IsSecureSlot(table, handle) ==
    LET i == FindEntry(table, handle.slotId)
    IN i # -1 /\ table[i].occupied /\ table[i].securityEnabled

\* what a caller can present: a capability it was given, or a copy of one
\* with the slot id overwritten
PresentedTokens == {[c EXCEPT !.slotId = s] : c \in issuedCaps, s \in SecureSlotIds}

SecureOp(op, handle, token, result, performed) ==
    [op |-> op, handle |-> handle, token |-> token, result |-> result,
     violationsBefore |-> manager.securityViolations,
     secureSlot |-> IsSecureSlot(slotTable, handle), performed |-> performed]

ValidateRecord(slotId, token, result) ==
    [result |-> result, slotId |-> slotId, capability |-> token,
     currentTime |-> now, currentFingerprint |-> hardware]

\* SlotClaimSecure(type, level): a claim as SlotClaim makes it, the entry
\* marked secure, and a capability from TokenGenerate for the new slot id
SlotClaimSecureOp(type, level, random) ==
    /\ manager.securityEnabled
    /\ nextSlotId <= MaxSlotId
    /\ FindEmpty(slotTable) # -1
    /\ LET i == FindEmpty(slotTable)
           handle == [slotId |-> ClaimSlotId(nextSlotId, i), typeTag |-> type,
                      generation |-> ClaimGeneration(slotTable, i)]
           r == TokenGenerate(context, handle.slotId, level, now, random)
       IN /\ slotTable' = [slotTable EXCEPT ![i] =
                             [@ EXCEPT !.slotId = handle.slotId, !.typeTag = type,
                                       !.occupied = TRUE, !.dataBlockRef = NULL,
                                       !.securityEnabled = TRUE, !.securityLevel = level,
                                       !.tokenGeneration = 1]]
          /\ nextSlotId' = nextSlotId + 1
          /\ activeSlots' = activeSlots + 1
          /\ issued' = [issued EXCEPT ![i] = Append(@, handle)]
          /\ lastOp' = Op("Claim", handle, "SLOT_SUCCESS", <<>>, 0)
          /\ context' = r.context
          /\ issuedCaps' = issuedCaps \cup {r.capability}
          /\ lastSecureOp' = SecureOp("ClaimSecure", handle, r.capability, "SLOT_SUCCESS", TRUE)
    /\ UNCHANGED <<schedVars, partyVars, poolVars, raceVars, freeBlocks, poolMem, released, lastWritten, hardware, now,
                   lastValidate, manager>>

SlotClaimSecure(type, level, random) ==
    /\ SlotClaimSecureOp(type, level, random)
    /\ UNCHANGED secureScopeVars

\* SlotReadSecure from line 568 on, with the capability the caller presents:
\* the entry of a secure slot was found and the token has canRead
SlotReadSecureAt(handle, token, bufferSize, random) ==
    /\ manager.securityEnabled
    /\ context.tokensValidated < MaxValidations
    /\ IsSecureSlot(slotTable, handle)
    /\ token.canRead
    /\ LET v == TokenValidate(context, handle.slotId, token, now, hardware, random)
       IN /\ context' = v.context
          /\ lastValidate' = ValidateRecord(handle.slotId, token, v.result)
          /\ IF v.result # "SECURITY_SUCCESS"
             THEN /\ manager' = [manager EXCEPT !.securityViolations = @ + 1]
                  /\ lastSecureOp' = SecureOp("ReadSecure", handle, token,
                                        IF v.result = "SECURITY_ERROR_TOKEN_EXPIRED"
                                        THEN "SLOT_ERROR_TTL_EXPIRED"
                                        ELSE "SLOT_ERROR_PERMISSION_DENIED", FALSE)
                  /\ UNCHANGED slotVars
             ELSE /\ SlotReadOp(handle, bufferSize)
                  /\ lastSecureOp' = SecureOp("ReadSecure", handle, token, lastOp'.result, TRUE)
                  /\ UNCHANGED manager
    /\ UNCHANGED <<schedVars, partyVars, poolVars, raceVars, secureScopeVars, hardware, now, issuedCaps>>

SlotReadSecure(handle, bufferSize, random) ==
    \E token \in PresentedTokens : SlotReadSecureAt(handle, token, bufferSize, random)

\* SlotReleaseSecure with the capability the caller presents
SlotReleaseSecureOp(handle, token, random) ==
    /\ manager.securityEnabled
    /\ context.tokensValidated < MaxValidations
    /\ LET i == FindEntry(slotTable, handle.slotId)
           v == TokenValidate(context, handle.slotId, token, now, hardware, random)
       IN IF i = -1 \/ ~slotTable[i].occupied
          THEN /\ lastSecureOp' = SecureOp("ReleaseSecure", handle, token,
                                            "SLOT_ERROR_SLOT_NOT_FOUND", FALSE)
               /\ UNCHANGED <<slotVars, context, lastValidate, manager>>
          ELSE IF ~slotTable[i].securityEnabled
          THEN /\ SlotReleaseOp(handle)
               /\ lastSecureOp' = SecureOp("ReleaseSecure", handle, token, lastOp'.result, TRUE)
               /\ UNCHANGED <<context, lastValidate, manager>>
          ELSE /\ context' = v.context
               /\ lastValidate' = ValidateRecord(handle.slotId, token, v.result)
               /\ IF v.result # "SECURITY_SUCCESS"
                  THEN /\ manager' = [manager EXCEPT !.securityViolations = @ + 1]
                       /\ lastSecureOp' = SecureOp("ReleaseSecure", handle, token,
                                                    "SLOT_ERROR_PERMISSION_DENIED", FALSE)
                       /\ UNCHANGED slotVars
                  ELSE \* lines 639-641 clear the entry's security fields, and the
                       \* memset of SlotRelease clears the whole entry
                       /\ SlotReleaseOp(handle)
                       /\ lastSecureOp' = SecureOp("ReleaseSecure", handle, token,
                                                    lastOp'.result, TRUE)
                       /\ UNCHANGED manager
    /\ UNCHANGED <<schedVars, partyVars, poolVars, raceVars, hardware, now, issuedCaps>>

SlotReleaseSecureAt(handle, token, random) ==
    /\ SlotReleaseSecureOp(handle, token, random)
    /\ UNCHANGED secureScopeVars

SlotReleaseSecure(handle, random) ==
    \E token \in PresentedTokens : SlotReleaseSecureAt(handle, token, random)

\* SlotRefreshToken with the capability the caller presents
SlotRefreshTokenAt(handle, token, random) ==
    /\ manager.securityEnabled
    /\ context.tokensValidated < MaxValidations
    /\ LET i == FindEntry(slotTable, handle.slotId)
           v == TokenValidate(context, handle.slotId, token, now, hardware, random)
           r == TokenGenerate(v.context, handle.slotId, slotTable[i].securityLevel, now, random)
       IN IF ~IsSecureSlot(slotTable, handle)
          THEN /\ lastSecureOp' = SecureOp("RefreshToken", handle, token,
                                            "SLOT_ERROR_SLOT_NOT_FOUND", FALSE)
               /\ UNCHANGED <<slotVars, context, lastValidate, issuedCaps>>
          ELSE /\ lastValidate' = ValidateRecord(handle.slotId, token, v.result)
               /\ IF v.result # "SECURITY_SUCCESS"
                  THEN /\ context' = v.context
                       /\ lastSecureOp' = SecureOp("RefreshToken", handle, token,
                                                    "SLOT_ERROR_PERMISSION_DENIED", FALSE)
                       /\ UNCHANGED <<slotVars, issuedCaps>>
                  ELSE /\ context' = r.context
                       /\ slotTable' = [slotTable EXCEPT ![i].tokenGeneration = @ + 1]
                       /\ issuedCaps' = issuedCaps \cup {r.capability}
                       /\ lastSecureOp' = SecureOp("RefreshToken", handle, token,
                                                    "SLOT_SUCCESS", TRUE)
                       /\ UNCHANGED <<nextSlotId, activeSlots, freeBlocks, poolMem, lastOp,
                                      issued, released, lastWritten>>
    /\ UNCHANGED <<schedVars, partyVars, poolVars, raceVars, secureScopeVars, hardware, now, manager>>

SlotRefreshToken(handle, random) ==
    \E token \in PresentedTokens : SlotRefreshTokenAt(handle, token, random)

(***************************************************************************)
(* The secure slot scope (slot_manager.c lines 949-1032).                  *)
(***************************************************************************)
ScopeCapacities == 1..MaxScopeCapacity

NoSecureScope == [state |-> "none", handles |-> <<>>, tokens |-> <<>>, capacity |-> 0,
                  autoCleanup |-> TRUE, i |-> 0,
                  claimed |-> <<>>, releaseCalls |-> <<>>, activeBefore |-> 0]

SecureScopeInit == secureScope = NoSecureScope

count == Len(secureScope.handles)

SecureSlotScopeCreate(capacity) ==
    /\ manager.securityEnabled
    /\ secureScope.state = "none"
    /\ secureScope' = [NoSecureScope EXCEPT !.state = "open", !.capacity = capacity,
                                            !.activeBefore = activeSlots]
    /\ UNCHANGED <<slotVars, schedVars, secVars, partyVars, poolVars, raceVars>>

\* SecureSlotScopeClaimSlot: refused when the scope is full, else
\* SlotClaimSecure into handles[count] and tokens[count], and count++
SecureSlotScopeClaimSlot(type, level, random) ==
    /\ secureScope.state = "open"
    /\ count < secureScope.capacity
    /\ SlotClaimSecureOp(type, level, random)
    /\ secureScope' = [secureScope EXCEPT !.handles = Append(@, lastSecureOp'.handle),
                                          !.tokens = Append(@, lastSecureOp'.token),
                                          !.claimed = Append(@, lastSecureOp'.handle)]

\* SecureSlotScopeDestroy lines 1016-1021, one turn of the loop:
\* SlotReleaseSecure(manager, &handles[i], &tokens[i])
SecureSlotScopeDestroyRelease(random) ==
    /\ secureScope.state \in {"open", "destroying"}
    /\ secureScope.autoCleanup
    /\ secureScope.i < count
    /\ SlotReleaseSecureOp(secureScope.handles[secureScope.i + 1],
                           secureScope.tokens[secureScope.i + 1], random)
    /\ secureScope' = [secureScope EXCEPT !.state = "destroying", !.i = @ + 1,
                                          !.releaseCalls = Append(@, secureScope.handles[secureScope.i + 1])]

\* lines 1023-1031: the loop is over; the tokens are wiped and the arrays
\* and the scope freed
SecureSlotScopeDestroyReturn ==
    /\ secureScope.state \in {"open", "destroying"}
    /\ secureScope.i = count
    /\ secureScope' = [secureScope EXCEPT !.state = "destroyed", !.handles = <<>>, !.tokens = <<>>]
    /\ UNCHANGED <<slotVars, schedVars, secVars, partyVars, poolVars, raceVars>>

(***************************************************************************)
(* The party dispatcher (src/runtime/party_runtime.c): DispatchParallel    *)
(* makes one fiber for each entry of a fiber map, waits for them as the    *)
(* join strategy says, stops the continuous ones and returns.              *)
(*                                                                         *)
(* GetSlotPointer, GetSchedulerForTag, CreateFiber,                        *)
(* ScheduleFiberWithPriority, WaitForFiber and WaitForAnyFiber are called  *)
(* by DispatchParallel and defined nowhere in the sources. They are taken  *)
(* for what their callers need: a made and scheduled fiber runs its        *)
(* function concurrently with the dispatcher, WaitForFiber(f) returns once *)
(* the function of f has returned, and WaitForAnyFiber(fibers, n) returns  *)
(* the index of a non-NULL fiber whose function has returned.              *)
(***************************************************************************)
JoinStrategies == {"JOIN_ALL", "JOIN_ANY", "JOIN_RACE", "JOIN_MAJORITY", "JOIN_CUSTOM"}

\* a fiber map: entry index -> isContinuous of the entry
Maps == UNION {[1..n -> BOOLEAN] : n \in 0..MaxEntries}
\* entry index -> whether the role instance, the scheduler and the fiber of
\* the entry can be obtained (lines 312-342 take `continue' when one cannot)
Obtainables == [1..MaxEntries -> BOOLEAN]

NoPartyFiber == [state |-> "none", ran |-> FALSE, isCancelled |-> FALSE, usedFreed |-> FALSE]

NoDispatch == [pc |-> "idle", joinStrategy |-> "JOIN_ALL", map |-> <<>>, results |-> <<>>,
               fibers |-> <<>>, stopFlags |-> <<>>, allSucceeded |-> FALSE, i |-> 1,
               successCount |-> 0, completed |-> 0, freed |-> FALSE,
               runningAtJoin |-> {}]

PartyInit ==
    /\ dispatch = NoDispatch
    /\ partyFibers = [i \in 1..MaxEntries |-> NoPartyFiber]

entryCount == Len(dispatch.map)

\* requiredCount of JOIN_MAJORITY (line 384)
RequiredCount(n) == (n \div 2) + 1

\* the entries whose fiber function has not returned
StillRunning == {i \in 1..MaxEntries : partyFibers[i].state = "running"}

\* DispatchParallel up to the switch on the join strategy: the results are
\* initialised to success = false, and a fiber is made and scheduled for
\* every entry for which nothing fails
DispatchParallel(map, obtainable, joinStrategy) ==
    /\ dispatch.pc = "idle"
    /\ IF Len(map) = 0
       THEN /\ dispatch' = [dispatch EXCEPT !.pc = "returned", !.joinStrategy = joinStrategy]
            /\ UNCHANGED partyFibers
       ELSE /\ dispatch' = [dispatch EXCEPT
                   !.pc = "join",
                   !.joinStrategy = joinStrategy,
                   !.map = map,
                   !.results = [i \in 1..Len(map) |-> [success |-> FALSE]],
                   !.fibers = [i \in 1..Len(map) |-> IF obtainable[i] THEN i ELSE NULL],
                   !.stopFlags = [i \in 1..Len(map) |-> FALSE],
                   !.allSucceeded = TRUE,
                   !.i = 1,
                   !.successCount = 0]
            /\ partyFibers' = [i \in 1..MaxEntries |->
                   IF i <= Len(map) /\ obtainable[i]
                   THEN [partyFibers[i] EXCEPT !.state = "running"]
                   ELSE partyFibers[i]]
    /\ UNCHANGED <<slotVars, schedVars, secVars, poolVars, raceVars, secureScopeVars>>

\* what a fiber function finds in the wrapper: once DispatchParallel has
\* freed the wrappers and the stop flags (lines 426-427) the fiber reads freed
\* memory, and the write through wrapper->result may land or not
ResultWrites == IF dispatch.freed THEN BOOLEAN ELSE {TRUE}

\* OneshotFiberFunction: the role's function runs once, then success = true
OneshotFiberFunction(i) ==
    /\ partyFibers[i].state = "running"
    /\ i <= entryCount
    /\ ~dispatch.map[i]
    /\ \E written \in ResultWrites :
          dispatch' = [dispatch EXCEPT !.results[i].success = IF written THEN TRUE ELSE @]
    /\ partyFibers' = [partyFibers EXCEPT ![i].state = "done", ![i].ran = TRUE,
                                          ![i].usedFreed = dispatch.freed]
    /\ UNCHANGED <<slotVars, schedVars, secVars, poolVars, raceVars, secureScopeVars>>

\* PeriodicFiberFunction, one turn of the loop: the stop flag is not set, the
\* role's function runs and the fiber sleeps or yields
PeriodicFiberFunctionLoop(i) ==
    /\ partyFibers[i].state = "running"
    /\ i <= entryCount
    /\ dispatch.map[i]
    /\ ~dispatch.stopFlags[i] \/ dispatch.freed
    /\ partyFibers' = [partyFibers EXCEPT ![i].ran = TRUE, ![i].usedFreed = dispatch.freed]
    /\ UNCHANGED <<slotVars, schedVars, secVars, poolVars, raceVars, secureScopeVars, dispatch>>

\* PeriodicFiberFunction leaving the loop: the stop flag is set, success = true
PeriodicFiberFunctionExit(i) ==
    /\ partyFibers[i].state = "running"
    /\ i <= entryCount
    /\ dispatch.map[i]
    /\ dispatch.stopFlags[i] \/ dispatch.freed
    /\ \E written \in ResultWrites :
          dispatch' = [dispatch EXCEPT !.results[i].success = IF written THEN TRUE ELSE @]
    /\ partyFibers' = [partyFibers EXCEPT ![i].state = "done",
                                          ![i].usedFreed = dispatch.freed]
    /\ UNCHANGED <<slotVars, schedVars, secVars, poolVars, raceVars, secureScopeVars>>

\* WaitForFiber(fibers[i]) can return
Waited(i) == partyFibers[dispatch.fibers[i]].state = "done"

\* case JOIN_ALL: one turn of the loop over the entries, in index order
DispatchJoinAll ==
    /\ dispatch.pc = "join"
    /\ dispatch.joinStrategy = "JOIN_ALL"
    /\ LET i == dispatch.i
       IN IF i > entryCount
          THEN dispatch' = [dispatch EXCEPT !.pc = "stop", !.runningAtJoin = StillRunning]
          ELSE IF dispatch.fibers[i] = NULL
          THEN dispatch' = [dispatch EXCEPT !.i = i + 1]
          ELSE /\ Waited(i)
               /\ dispatch' = [dispatch EXCEPT
                      !.allSucceeded = IF ~dispatch.results[i].success THEN FALSE ELSE @,
                      !.i = i + 1]
    /\ UNCHANGED <<slotVars, schedVars, secVars, poolVars, raceVars, secureScopeVars, partyFibers>>

\* case JOIN_ANY: WaitForAnyFiber returns and its value is dropped
DispatchJoinAny ==
    /\ dispatch.pc = "join"
    /\ dispatch.joinStrategy = "JOIN_ANY"
    /\ \E completed \in 1..entryCount :
          /\ dispatch.fibers[completed] # NULL
          /\ Waited(completed)
          /\ dispatch' = [dispatch EXCEPT !.pc = "stop", !.completed = completed,
                                          !.runningAtJoin = StillRunning]
    /\ UNCHANGED <<slotVars, schedVars, secVars, poolVars, raceVars, secureScopeVars, partyFibers>>

\* case JOIN_RACE: one turn of the loop around WaitForAnyFiber
DispatchJoinRace ==
    /\ dispatch.pc = "join"
    /\ dispatch.joinStrategy = "JOIN_RACE"
    /\ \E completed \in 1..entryCount :
          /\ dispatch.fibers[completed] # NULL
          /\ Waited(completed)
          /\ IF dispatch.results[completed].success
             THEN dispatch' = [dispatch EXCEPT !.pc = "stop", !.completed = completed,
                                               !.runningAtJoin = StillRunning]
             ELSE dispatch' = [dispatch EXCEPT !.fibers[completed] = NULL]
    /\ UNCHANGED <<slotVars, schedVars, secVars, poolVars, raceVars, secureScopeVars, partyFibers>>

\* case JOIN_MAJORITY: one turn of the loop over the entries, in index order
DispatchJoinMajority ==
    /\ dispatch.pc = "join"
    /\ dispatch.joinStrategy = "JOIN_MAJORITY"
    /\ LET i == dispatch.i
           requiredCount == RequiredCount(entryCount)
           leave(successCount) ==
               [dispatch EXCEPT !.pc = "stop", !.successCount = successCount,
                                !.allSucceeded = (successCount >= requiredCount),
                                !.runningAtJoin = StillRunning]
       IN IF i > entryCount
          THEN dispatch' = leave(dispatch.successCount)
          ELSE IF dispatch.fibers[i] = NULL
          THEN dispatch' = [dispatch EXCEPT !.i = i + 1]
          ELSE /\ Waited(i)
               /\ IF ~dispatch.results[i].success
                  THEN dispatch' = [dispatch EXCEPT !.i = i + 1]
                  ELSE IF dispatch.successCount + 1 >= requiredCount
                  THEN dispatch' = leave(dispatch.successCount + 1)
                  ELSE dispatch' = [dispatch EXCEPT !.successCount = @ + 1, !.i = i + 1]
    /\ UNCHANGED <<slotVars, schedVars, secVars, poolVars, raceVars, secureScopeVars, partyFibers>>

\* JOIN_CUSTOM: the switch has no case for it and waits for nothing
DispatchJoinCustom ==
    /\ dispatch.pc = "join"
    /\ dispatch.joinStrategy = "JOIN_CUSTOM"
    /\ dispatch' = [dispatch EXCEPT !.pc = "stop", !.runningAtJoin = StillRunning]
    /\ UNCHANGED <<slotVars, schedVars, secVars, poolVars, raceVars, secureScopeVars, partyFibers>>

\* the loop after the switch: the stop flag of every continuous entry is set
DispatchStopContinuous ==
    /\ dispatch.pc = "stop"
    /\ dispatch' = [dispatch EXCEPT
           !.pc = "finalWait",
           !.stopFlags = [i \in 1..entryCount |-> IF dispatch.map[i] THEN TRUE ELSE @[i]]]
    /\ UNCHANGED <<slotVars, schedVars, secVars, poolVars, raceVars, secureScopeVars, partyFibers>>

\* the final wait for the continuous fibers, then fibers, wrappers and stop
\* flags are freed and the result is returned
DispatchReturn ==
    /\ dispatch.pc = "finalWait"
    /\ \A i \in 1..entryCount :
          (dispatch.fibers[i] # NULL /\ dispatch.map[i]) => Waited(i)
    /\ dispatch' = [dispatch EXCEPT !.pc = "returned", !.freed = TRUE]
    /\ UNCHANGED <<slotVars, schedVars, secVars, poolVars, raceVars, secureScopeVars, partyFibers>>

(***************************************************************************)
(* The slot pool (src/runtime/slot_pool.c): a fixed array of elements, an  *)
(* occupancy flag for each index and a stack of the free indices.          *)
(***************************************************************************)
\* (PoolIndex)-1, the largest uint32_t: no index of a pool, and not below
\* any capacity
NULL_INDEX == -1

\* what an element holds: zero, or something a client stored
PoolValues == {0, 1}
\* the indices a client may pass: those of the pool, one past, and NULL_INDEX
PoolIndices == (0..PoolCapacity) \cup {NULL_INDEX}

\* the free list as SlotPoolCreate fills it
InitialFreeList(capacity) == [i \in 0..(capacity - 1) |-> i]

\* SlotPoolCreate(elementSize, PoolCapacity, cacheOptimized)
SlotPoolCreate(capacity) ==
    [capacity |-> capacity,
     count |-> 0,
     data |-> [i \in 0..(capacity - 1) |-> 0],
     occupied |-> [i \in 0..(capacity - 1) |-> FALSE],
     freeList |-> InitialFreeList(capacity),
     freeListTop |-> capacity,
     totalAllocations |-> 0,
     totalDeallocations |-> 0,
     peakUsage |-> 0]

NoPoolOp == [op |-> "None", index |-> NULL_INDEX, result |-> NULL_INDEX]

\* a LinkedListNode of the zeroed data array
ZeroNode == [value |-> 0, next |-> 0, prev |-> 0, generation |-> 0]

\* LinkedListCreate(capacity): a node pool of that capacity and no node
LinkedListCreate(capacity) ==
    [nodePool |-> [SlotPoolCreate(capacity) EXCEPT
                      !.data = [i \in 0..(capacity - 1) |-> ZeroNode]],
     head |-> NULL_INDEX,
     tail |-> NULL_INDEX,
     count |-> 0,
     fault |-> FALSE]

NoListOp == [op |-> "None", index |-> NULL_INDEX, full |-> FALSE, result |-> NULL_INDEX]

PoolInit ==
    /\ pool = SlotPoolCreate(PoolCapacity)
    /\ lastPoolOp = NoPoolOp
    /\ poolHistory = [allocated |-> {}, lastFreed |-> NULL_INDEX]
    /\ linkedList = LinkedListCreate(PoolCapacity)
    /\ lastListOp = NoListOp

\* index >= pool->capacity on unsigned indices
IndexOutOfRange(p, index) == index = NULL_INDEX \/ index >= p.capacity

\* another policy for SlotPoolAlloc: the lowest index that is not occupied
PopLowestFree(p) ==
    CHOOSE i \in 0..(p.capacity - 1) :
        ~p.occupied[i] /\ \A j \in 0..(i - 1) : p.occupied[j]

\* the index SlotPoolAlloc takes: the top of the free stack, after the
\* decrement of freeListTop
PopIndex(p) == p.freeList[p.freeListTop - 1]

\* SlotPoolFree storing the index at the bottom of the free list
PushSlotBottom(p) == 0

\* where SlotPoolFree stores the index: at the top of the free stack
PushSlot(p) == p.freeListTop

\* SlotPoolFree accepting any index of the pool, occupied or not
FreeRefusedOutOfRange(p, index) == IndexOutOfRange(p, index)

\* the test at the head of SlotPoolFree
FreeRefused(p, index) == IndexOutOfRange(p, index) \/ ~p.occupied[index]

SlotPoolAlloc ==
    /\ pool.totalAllocations < MaxPoolAllocs
    /\ IF pool.freeListTop = 0
       THEN /\ lastPoolOp' = [op |-> "Alloc", index |-> NULL_INDEX, result |-> NULL_INDEX]
            /\ UNCHANGED <<pool, poolHistory>>
       ELSE LET index == PopIndex(pool)
            IN /\ pool' = [pool EXCEPT
                      !.freeListTop = @ - 1,
                      !.occupied[index] = TRUE,
                      !.count = @ + 1,
                      !.totalAllocations = @ + 1,
                      !.peakUsage = IF pool.count + 1 > @ THEN pool.count + 1 ELSE @]
               /\ lastPoolOp' = [op |-> "Alloc", index |-> NULL_INDEX, result |-> index]
               /\ poolHistory' = [allocated |-> poolHistory.allocated \cup {index},
                                  lastFreed |-> NULL_INDEX]
    /\ UNCHANGED <<slotVars, schedVars, secVars, partyVars, raceVars, secureScopeVars, linkedList, lastListOp>>

SlotPoolFree(index) ==
    /\ IF FreeRefused(pool, index)
       THEN /\ lastPoolOp' = [op |-> "Free", index |-> index, result |-> FALSE]
            /\ UNCHANGED <<pool, poolHistory>>
       ELSE /\ pool' = [pool EXCEPT
                   !.data[index] = 0,
                   !.occupied[index] = FALSE,
                   !.count = @ - 1,
                   !.freeList[PushSlot(pool)] = index,
                   !.freeListTop = @ + 1,
                   !.totalDeallocations = @ + 1]
            /\ lastPoolOp' = [op |-> "Free", index |-> index, result |-> TRUE]
            /\ poolHistory' = [allocated |-> poolHistory.allocated \ {index},
                               lastFreed |-> index]
    /\ UNCHANGED <<slotVars, schedVars, secVars, partyVars, raceVars, secureScopeVars, linkedList, lastListOp>>

\* SlotPoolGet and a store through the pointer it returned
SlotPoolGet(index, value) ==
    /\ IF IndexOutOfRange(pool, index) \/ ~pool.occupied[index]
       THEN /\ lastPoolOp' = [op |-> "Get", index |-> index, result |-> FALSE]
            /\ UNCHANGED pool
       ELSE /\ pool' = [pool EXCEPT !.data[index] = value]
            /\ lastPoolOp' = [op |-> "Get", index |-> index, result |-> TRUE]
    /\ UNCHANGED <<slotVars, schedVars, secVars, partyVars, raceVars, secureScopeVars, linkedList, lastListOp, poolHistory>>

(***************************************************************************)
(* The linked list over a slot pool (slot_pool.c lines 249-392): nodes are *)
(* elements of list->nodePool and name each other by pool index.           *)
(***************************************************************************)
\* the values a client stores in a node
ListValues == {1, 2}

\* SlotPoolAlloc on the node pool p, which has a free index
NodePoolAlloc(p) ==
    [p EXCEPT !.freeListTop = @ - 1,
              !.occupied[PopIndex(p)] = TRUE,
              !.count = @ + 1,
              !.totalAllocations = @ + 1,
              !.peakUsage = IF p.count + 1 > @ THEN p.count + 1 ELSE @]

\* SlotPoolFree on the node pool p of an index it accepts
NodePoolFree(p, index) ==
    [p EXCEPT !.data[index] = ZeroNode,
              !.occupied[index] = FALSE,
              !.count = @ - 1,
              !.freeList[PushSlot(p)] = index,
              !.freeListTop = @ + 1,
              !.totalDeallocations = @ + 1]

\* SlotPoolGet returns NULL for this index
GetsNull(p, index) == IndexOutOfRange(p, index) \/ ~p.occupied[index]

\* SlotPoolIsValid
SlotPoolIsValid(p, index) == ~IndexOutOfRange(p, index) /\ p.occupied[index]

\* LinkedListPushBack giving the new node no predecessor
PushBackPrevNone(l) == NULL_INDEX

\* newNode->prev of LinkedListPushBack
PushBackPrev(l) == l.tail

\* a push is made while the pool is full or has allocations left to make
ListPushAllowed ==
    /\ ~linkedList.fault
    /\ linkedList.nodePool.freeListTop = 0 \/ linkedList.nodePool.totalAllocations < MaxPoolAllocs

\* the list after a call that wrote through a NULL node pointer: the process
\* has faulted
ListFault == [linkedList EXCEPT !.fault = TRUE]

LinkedListPushBack(value) ==
    /\ ListPushAllowed
    /\ IF linkedList.nodePool.freeListTop = 0
       THEN /\ lastListOp' = [op |-> "PushBack", index |-> NULL_INDEX, full |-> TRUE,
                              result |-> NULL_INDEX]
            /\ UNCHANGED linkedList
       ELSE LET newIndex == PopIndex(linkedList.nodePool)
                p == NodePoolAlloc(linkedList.nodePool)
                newNode == [value |-> value, next |-> NULL_INDEX,
                            prev |-> PushBackPrev(linkedList), generation |-> 1]
                withNew == [p EXCEPT !.data[newIndex] = newNode]
            IN /\ linkedList' = IF linkedList.tail = NULL_INDEX
                          THEN [linkedList EXCEPT !.nodePool = withNew, !.head = newIndex,
                                            !.tail = newIndex, !.count = @ + 1]
                          ELSE IF GetsNull(withNew, linkedList.tail) THEN ListFault
                          ELSE [linkedList EXCEPT
                                  !.nodePool = [withNew EXCEPT !.data[linkedList.tail].next = newIndex],
                                  !.tail = newIndex, !.count = @ + 1]
               /\ lastListOp' = [op |-> "PushBack", index |-> NULL_INDEX, full |-> FALSE,
                                 result |-> newIndex]
    /\ UNCHANGED <<slotVars, schedVars, secVars, partyVars, raceVars, secureScopeVars,
                   pool, lastPoolOp, poolHistory>>

LinkedListPushFront(value) ==
    /\ ListPushAllowed
    /\ IF linkedList.nodePool.freeListTop = 0
       THEN /\ lastListOp' = [op |-> "PushFront", index |-> NULL_INDEX, full |-> TRUE,
                              result |-> NULL_INDEX]
            /\ UNCHANGED linkedList
       ELSE LET newIndex == PopIndex(linkedList.nodePool)
                p == NodePoolAlloc(linkedList.nodePool)
                newNode == [value |-> value, next |-> linkedList.head,
                            prev |-> NULL_INDEX, generation |-> 1]
                withNew == [p EXCEPT !.data[newIndex] = newNode]
            IN /\ linkedList' = IF linkedList.head = NULL_INDEX
                          THEN [linkedList EXCEPT !.nodePool = withNew, !.tail = newIndex,
                                            !.head = newIndex, !.count = @ + 1]
                          ELSE IF GetsNull(withNew, linkedList.head) THEN ListFault
                          ELSE [linkedList EXCEPT
                                  !.nodePool = [withNew EXCEPT !.data[linkedList.head].prev = newIndex],
                                  !.head = newIndex, !.count = @ + 1]
               /\ lastListOp' = [op |-> "PushFront", index |-> NULL_INDEX, full |-> FALSE,
                                 result |-> newIndex]
    /\ UNCHANGED <<slotVars, schedVars, secVars, partyVars, raceVars, secureScopeVars,
                   pool, lastPoolOp, poolHistory>>

LinkedListRemove(nodeIndex) ==
    /\ ~linkedList.fault
    /\ IF ~SlotPoolIsValid(linkedList.nodePool, nodeIndex)
       THEN /\ lastListOp' = [op |-> "Remove", index |-> nodeIndex, full |-> FALSE,
                              result |-> FALSE]
            /\ UNCHANGED linkedList
       ELSE LET p == linkedList.nodePool
                node == p.data[nodeIndex]
                nullUsed == \/ node.prev # NULL_INDEX /\ GetsNull(p, node.prev)
                            \/ node.next # NULL_INDEX /\ GetsNull(p, node.next)
                unlinkedPrev == IF node.prev # NULL_INDEX
                                THEN [p EXCEPT !.data[node.prev].next = node.next] ELSE p
                unlinked == IF node.next # NULL_INDEX
                            THEN [unlinkedPrev EXCEPT !.data[node.next].prev = node.prev]
                            ELSE unlinkedPrev
            IN /\ linkedList' = IF nullUsed THEN ListFault
                          ELSE [linkedList EXCEPT
                                  !.nodePool = NodePoolFree(unlinked, nodeIndex),
                                  !.head = IF node.prev = NULL_INDEX THEN node.next ELSE @,
                                  !.tail = IF node.next = NULL_INDEX THEN node.prev ELSE @,
                                  !.count = @ - 1]
               /\ lastListOp' = [op |-> "Remove", index |-> nodeIndex, full |-> FALSE,
                                 result |-> TRUE]
    /\ UNCHANGED <<slotVars, schedVars, secVars, partyVars, raceVars, secureScopeVars,
                   pool, lastPoolOp, poolHistory>>

(***************************************************************************)
(* AsyncScopeRace (async_scope.c lines 377-457), called by a thread that   *)
(* is not a fiber, and RaceWorker, the routine of the fibers it spawns.    *)
(***************************************************************************)
RaceTaskCounts == 1..MaxRaceTasks

NoRace == [pc |-> "idle", parent |-> NULL, scope |-> NULL, taskCount |-> 0, spawned |-> 0,
           winnerIndex |-> -1, completed |-> <<>>, ranBy |-> <<>>, casWins |-> 0,
           scheduled |-> {}, exited |-> {}, result |-> -1]

RaceInit == race = NoRace

\* RaceWorker lines 390-400: the position of the current fiber in the list of
\* the race scope, from 0, or -1
RaceMyIndex(list, current) ==
    IF current \in Range(list)
    THEN (CHOOSE k \in 1..Len(list) : list[k] = current /\ \A j \in 1..(k - 1) : list[j] # current) - 1
    ELSE -1

\* AsyncScopeRace lines 421-441: the nested scope, the RaceState and
\* tasks[i].completed = false
AsyncScopeRaceBegin(s, taskCount) ==
    /\ ~crashed
    /\ race.pc = "idle"
    /\ scopes[s].created /\ ~scopes[s].freed
    /\ \E r \in ScopeIds :
          /\ ~scopes[r].created
          /\ \A t \in ScopeIds : t < r => scopes[t].created
          /\ scopes' = [scopes EXCEPT ![r] = [NoScope EXCEPT !.created = TRUE, !.parentScope = s]]
          /\ race' = [NoRace EXCEPT !.pc = "spawning", !.parent = s, !.scope = r,
                                    !.taskCount = taskCount,
                                    !.completed = [i \in 1..taskCount |-> FALSE],
                                    !.ranBy = [i \in 1..taskCount |-> {}]]
    /\ UNCHANGED <<slotVars, secVars, partyVars, poolVars, secureScopeVars, scheduler, fibers, nextFiber, globalRunQueue,
                   localRunQueue, workers, parkedWorkers, woken, stealingVictim, totalFibers,
                   activeFibers, spawning, crashed>>

\* lines 444-446, one turn of the loop: AsyncScopeSpawn(raceScope, RaceWorker,
\* &state) as a whole (async_scope.c lines 175-222): refused when the scope is
\* disposed or cancelled, else a fiber is made and put in the scope's list and
\* SchedulerSpawnWithPriority makes and queues a second fiber with the same
\* routine and argument
AsyncScopeRaceSpawn ==
    /\ ~crashed
    /\ race.pc = "spawning"
    /\ spawning.phase = "none"
    /\ LET r == race.scope
           more == IF race.spawned + 1 = race.taskCount THEN "waiting" ELSE "spawning"
       IN IF scopes[r].isDisposed \/ AsyncScopeIsCancelled(scopes, r)
          THEN /\ race' = [race EXCEPT !.spawned = @ + 1, !.pc = more]
               /\ UNCHANGED <<fibers, nextFiber, scopes, totalFibers, activeFibers, globalRunQueue, woken>>
          ELSE /\ nextFiber + 1 <= MaxFibers
               /\ fibers' = [fibers EXCEPT ![nextFiber] = FiberCreate(nextFiber, r),
                                           ![nextFiber + 1] = FiberCreate(nextFiber, r)]
               /\ nextFiber' = nextFiber + 2
               /\ scopes' = [scopes EXCEPT ![r].fibers = Append(@, nextFiber)]
               /\ totalFibers' = totalFibers + 1
               /\ activeFibers' = activeFibers + 1
               /\ globalRunQueue' = ConcurrentQueuePush(globalRunQueue, nextFiber + 1)
               /\ Signal
               /\ race' = [race EXCEPT !.spawned = @ + 1, !.pc = more,
                                       !.scheduled = @ \cup {nextFiber + 1}]
    /\ UNCHANGED <<slotVars, secVars, partyVars, poolVars, secureScopeVars, scheduler, localRunQueue, workers,
                   parkedWorkers, stealingVictim, spawning, crashed>>

\* RaceWorker lines 385-417, run by the fiber on worker w: find the index of
\* the current fiber; with an index, run the task's routine (it terminates),
\* then compare-and-swap winnerIndex from -1 and, having won, set completed
\* and AsyncScopeCancel the race scope
RaceWorker(w) ==
    /\ InFiber(w, {"body"})
    /\ RaceWorkerPending(workers[w].currentFiber)
    /\ LET fiber == workers[w].currentFiber
           r == race.scope
           myIndex == RaceMyIndex(scopes[r].fibers, workers[w].tlsCurrentFiber)
           hasTask == myIndex >= 0 /\ myIndex < race.taskCount
           wins == hasTask /\ race.winnerIndex = -1
       IN /\ race' = [race EXCEPT
                        !.exited = @ \cup {fiber},
                        !.ranBy = IF hasTask THEN [@ EXCEPT ![myIndex + 1] = @ \cup {fiber}] ELSE @,
                        !.winnerIndex = IF wins THEN myIndex ELSE @,
                        !.casWins = IF wins THEN @ + 1 ELSE @,
                        !.completed = IF wins THEN [@ EXCEPT ![myIndex + 1] = TRUE] ELSE @]
          /\ scopes' = IF wins THEN [scopes EXCEPT ![r].isCancelled = TRUE] ELSE scopes
          /\ fibers' = IF wins THEN FiberCancel(fibers, Range(scopes[r].fibers)) ELSE fibers
          /\ crashed' \in IF race.pc = "returned" \/ ScopeFreed({r}) THEN BOOLEAN ELSE {FALSE}
    /\ UNCHANGED <<slotVars, secVars, partyVars, poolVars, secureScopeVars, scheduler, nextFiber, globalRunQueue,
                   localRunQueue, workers, parkedWorkers, woken, stealingVictim, totalFibers,
                   activeFibers, spawning>>

\* lines 449-456: AsyncScopeWaitAll has seen fiberCount = 0, the winner index
\* is loaded, AsyncScopeDestroy(raceScope) and the return
AsyncScopeRaceReturn ==
    /\ ~crashed
    /\ race.pc = "waiting"
    /\ Len(scopes[race.scope].fibers) = 0
    /\ race' = [race EXCEPT !.pc = "returned", !.result = race.winnerIndex]
    /\ scopes' = [scopes EXCEPT ![race.scope].isDisposed = TRUE, ![race.scope].isCancelled = TRUE,
                                ![race.scope].freed = TRUE, ![race.scope].destroyPc = "returned"]
    /\ UNCHANGED <<slotVars, secVars, partyVars, poolVars, secureScopeVars, scheduler, fibers, nextFiber, globalRunQueue,
                   localRunQueue, workers, parkedWorkers, woken, stealingVictim, totalFibers,
                   activeFibers, spawning, crashed>>

Init == SlotInit /\ SchedInit /\ SecInit /\ PartyInit /\ PoolInit /\ RaceInit /\ SecureScopeInit

\* the calls a client can make, with claimed types, handles, data and buffer
\* sizes drawn from the given sets
SlotNextOver(TypeSet, HandleSet, DataSet, BufferSet) ==
    \/ \E type \in TypeSet : SlotClaim(type)
    \/ \E handle \in HandleSet, data \in DataSet : SlotWrite(handle, data)
    \/ \E handle \in HandleSet, bufferSize \in BufferSet : SlotRead(handle, bufferSize)
    \/ \E handle \in HandleSet : SlotRelease(handle)

\* clients claiming slots of one type, presenting arbitrary handles (any
\* slotId, typeTag, generation) and writing one 8-byte value
HandleNext == SlotNextOver({TYPE_CUSTOM + 1}, Handles, {[size |-> 8, fill |-> 1]}, {8})

Spec == Init /\ [][HandleNext]_vars

\* clients claiming slots of one type, presenting handles as SlotClaim issued
\* them, writing and reading values of every size
IssuedHandles == {h \in Handles : h.generation = 1 /\ h.typeTag = TYPE_CUSTOM + 1}
DataNext == SlotNextOver({TYPE_CUSTOM + 1}, IssuedHandles, Datas, DataSizes)

DataSpec == Init /\ [][DataNext]_vars

(***************************************************************************)
(* Scheduler and scope: specifications                                     *)
(***************************************************************************)
\* the workers, fibers that block and suspend themselves, and threads that
\* spawn, block, unblock, suspend and resume fibers
SchedNext ==
    \/ \E w \in Workers : WorkerNext(w)
    \/ \E w \in Workers : SchedulerBlockSelf(w)
    \/ \E w \in Workers : FiberSuspendSelf(w)
    \/ SchedulerSpawn
    \/ \E fiber \in FiberIds : SchedulerBlock(fiber)
    \/ \E fiber \in FiberIds : SchedulerUnblock(fiber)
    \/ \E fiber \in FiberIds : FiberSuspend(fiber)
    \/ \E fiber \in FiberIds : FiberResume(fiber)

SchedSpec == Init /\ [][SchedNext]_vars

\* Each worker is a thread of its own (pthread_create in SchedulerStart) and
\* keeps being scheduled: its loop and the fiber it runs go on taking steps.
\* On top of that a worker is taken not to lose the race for a queued fiber
\* for ever, and a start routine is taken to return at some point.
\* Nothing is assumed of the threads that call into the scheduler.
WorkerFairness ==
    \A w \in Workers :
        /\ WF_vars(WorkerNext(w))
        /\ SF_vars(WorkerFetch(w))
        /\ SF_vars(FiberReturn(w))

\* the workers and a thread that only spawns
SpawnNext ==
    \/ \E w \in Workers : WorkerNext(w)
    \/ SchedulerSpawn

SpawnFairSpec == Init /\ [][SpawnNext]_vars /\ WorkerFairness

\* the workers and threads or fibers that create, fill, cancel and destroy
\* scopes
ScopeNext ==
    \/ \E w \in Workers : WorkerNext(w)
    \/ \E s \in ScopeIds, parent \in ScopeIds \cup {NULL} : AsyncScopeCreate(s, parent)
    \/ \E s \in ScopeIds, caller \in SpawnCallers : AsyncScopeSpawnCheck(s, caller)
    \/ AsyncScopeSpawnCreate
    \/ AsyncScopeSpawnSchedule
    \/ \E s \in ScopeIds : AsyncScopeCancel(s)
    \/ \E s \in ScopeIds : AsyncScopeDestroyBegin(s)
    \/ \E s \in ScopeIds : AsyncScopeDestroyEnd(s)
    \/ \E s \in ScopeIds : AsyncScopeDestroyAgain(s)

ScopeSpec == Init /\ [][ScopeNext]_vars

\* the same without AsyncScopeDestroy: scopes are created, filled and cancelled
CancelNext ==
    \/ \E w \in Workers : WorkerNext(w)
    \/ \E s \in ScopeIds, parent \in ScopeIds \cup {NULL} : AsyncScopeCreate(s, parent)
    \/ \E s \in ScopeIds, caller \in SpawnCallers : AsyncScopeSpawnCheck(s, caller)
    \/ AsyncScopeSpawnCreate
    \/ AsyncScopeSpawnSchedule
    \/ \E s \in ScopeIds : AsyncScopeCancel(s)

CancelFairSpec == Init /\ [][CancelNext]_vars /\ WorkerFairness

\* the workers, threads that spawn, fibers that spawn into a scope, and threads
\* that cancel a fiber they hold
FiberCancelNext ==
    \/ \E w \in Workers : WorkerNext(w)
    \/ SchedulerSpawn
    \/ \E s \in ScopeIds : AsyncScopeCreate(s, NULL)
    \/ \E s \in ScopeIds, caller \in SpawnCallers : AsyncScopeSpawnCheck(s, caller)
    \/ AsyncScopeSpawnCreate
    \/ AsyncScopeSpawnSchedule
    \/ \E fiber \in FiberIds : FiberCancelCall(fiber)

FiberCancelSpec == Init /\ [][FiberCancelNext]_vars

\* a thread that makes a secure slot scope, claims slots through it and
\* destroys it, while time passes
SecureScopeNext ==
    \/ \E capacity \in ScopeCapacities : SecureSlotScopeCreate(capacity)
    \/ \E level \in SecurityLevels, random \in Randoms :
            SecureSlotScopeClaimSlot(TYPE_CUSTOM + 1, level, random)
    \/ \E random \in Randoms : SecureSlotScopeDestroyRelease(random)
    \/ SecureSlotScopeDestroyReturn
    \/ ClockTick

SecureScopeSpec == Init /\ [][SecureScopeNext]_vars

\* the workers, a thread that calls AsyncScopeRace on a scope and threads that
\* create and cancel scopes they hold (the race scope is held by the call only)
RaceNext ==
    \/ \E w \in Workers : WorkerNext(w)
    \/ \E w \in Workers : RaceWorker(w)
    \/ \E s \in ScopeIds : AsyncScopeCreate(s, NULL)
    \/ \E s \in ScopeIds \ {race.scope} : AsyncScopeCancel(s)
    \/ \E s \in ScopeIds, taskCount \in RaceTaskCounts : AsyncScopeRaceBegin(s, taskCount)
    \/ AsyncScopeRaceSpawn
    \/ AsyncScopeRaceReturn

RaceSpec == Init /\ [][RaceNext]_vars

\* the workers, a thread that spawns, fibers that block or suspend themselves
\* and threads that block, suspend or cancel a fiber they hold
SuspendCancelNext ==
    \/ \E w \in Workers : WorkerNext(w)
    \/ \E w \in Workers : SchedulerBlockSelf(w)
    \/ \E w \in Workers : FiberSuspendSelf(w)
    \/ SchedulerSpawn
    \/ \E fiber \in FiberIds : SchedulerBlock(fiber)
    \/ \E fiber \in FiberIds : FiberSuspend(fiber)
    \/ \E fiber \in FiberIds : FiberCancelCall(fiber)

SuspendCancelFairSpec == Init /\ [][SuspendCancelNext]_vars /\ WorkerFairness

\* the workers, a thread that spawns a fiber and keeps its handle, blocks it
\* and cancels it, and fibers that spawn into the one scope of the program
\* (which attaches the new fiber to the calling fiber)
FiberTreeNext ==
    \/ \E w \in Workers : WorkerNext(w)
    \/ SchedulerSpawn
    \/ AsyncScopeCreate(1, NULL)
    \/ \E caller \in SpawnCallers : AsyncScopeSpawnCheck(1, caller)
    \/ AsyncScopeSpawnCreate
    \/ AsyncScopeSpawnSchedule
    \/ SchedulerBlock(1)
    \/ FiberCancelCall(1)

FiberTreeSpec == Init /\ [][FiberTreeNext]_vars

\* the workers, a thread that spawns and a thread that calls SchedulerStop
StopNext ==
    \/ \E w \in Workers : WorkerNext(w)
    \/ \E w \in Workers : WorkerExit(w)
    \/ SchedulerSpawn
    \/ SchedulerStopSignal
    \/ SchedulerStopBroadcast
    \/ SchedulerStopJoin
    \/ IoWorkerExit

\* The thread inside SchedulerStop and the I/O thread keep being scheduled,
\* and so does a worker at its loop test.
StopFairness ==
    /\ WorkerFairness
    /\ \A w \in Workers : WF_vars(WorkerExit(w))
    /\ WF_vars(SchedulerStopBroadcast)
    /\ WF_vars(SchedulerStopJoin)
    /\ WF_vars(IoWorkerExit)

StopFairSpec == Init /\ [][StopNext]_vars /\ StopFairness

(***************************************************************************)
(* Security context: specification                                         *)
(***************************************************************************)
\* callers that obtain capabilities and present them, for the slot they
\* were issued for or another one, while time passes and hardware changes
TokenNext ==
    \/ \E slotId \in SecureSlotIds, level \in SecurityLevels, random \in Randoms :
            TokenGenerateCall(slotId, level, random)
    \/ \E slotId \in SecureSlotIds, random \in Randoms : TokenValidateCall(slotId, random)
    \/ ClockTick
    \/ \E fingerprint \in Fingerprints : HardwareChange(fingerprint)

TokenSpec == Init /\ [][TokenNext]_vars

\* clients of a manager with security enabled: they claim secure and plain
\* slots and read, release and refresh with the handles they were given and
\* the capabilities they can present, while time passes
SecureHandles == {h \in IssuedHandles : h.slotId \in SecureSlotIds}

SecureNext ==
    \/ \E level \in SecurityLevels, random \in Randoms :
            SlotClaimSecure(TYPE_CUSTOM + 1, level, random)
    \/ SlotClaim(TYPE_CUSTOM + 1)
    \/ \E handle \in SecureHandles, random \in Randoms : SlotReadSecure(handle, 8, random)
    \/ \E handle \in SecureHandles, random \in Randoms : SlotReleaseSecure(handle, random)
    \/ \E handle \in SecureHandles, random \in Randoms : SlotRefreshToken(handle, random)
    \/ ClockTick

SecureSpec == Init /\ [][SecureNext]_vars

\* one DispatchParallel call over a map of up to MaxEntries entries, with any
\* join strategy, and the fibers it makes
PartyNext ==
    \/ \E map \in Maps, obtainable \in Obtainables, joinStrategy \in JoinStrategies :
          DispatchParallel(map, obtainable, joinStrategy)
    \/ DispatchJoinAll
    \/ DispatchJoinAny
    \/ DispatchJoinRace
    \/ DispatchJoinMajority
    \/ DispatchJoinCustom
    \/ DispatchStopContinuous
    \/ DispatchReturn
    \/ \E i \in 1..MaxEntries : OneshotFiberFunction(i)
    \/ \E i \in 1..MaxEntries : PeriodicFiberFunctionLoop(i)
    \/ \E i \in 1..MaxEntries : PeriodicFiberFunctionExit(i)

PartySpec == Init /\ [][PartyNext]_vars

\* the dispatching thread runs whenever it is not blocked in a wait, and every
\* fiber function that can take a step is eventually run
PartyFairness ==
    /\ WF_vars(DispatchJoinAll)
    /\ WF_vars(DispatchJoinAny)
    /\ WF_vars(DispatchJoinRace)
    /\ WF_vars(DispatchJoinMajority)
    /\ WF_vars(DispatchJoinCustom)
    /\ WF_vars(DispatchStopContinuous)
    /\ WF_vars(DispatchReturn)
    /\ \A i \in 1..MaxEntries :
          /\ WF_vars(OneshotFiberFunction(i))
          /\ WF_vars(PeriodicFiberFunctionLoop(i))
          /\ WF_vars(PeriodicFiberFunctionExit(i))

PartyFairSpec == Init /\ [][PartyNext]_vars /\ PartyFairness

\* a client of one pool allocating, freeing any index and storing values
PoolNext ==
    \/ SlotPoolAlloc
    \/ \E index \in PoolIndices : SlotPoolFree(index)
    \/ \E index \in PoolIndices, value \in PoolValues : SlotPoolGet(index, value)

PoolSpec == Init /\ [][PoolNext]_vars

\* a client of one linked list
ListNext ==
    \/ \E value \in ListValues : LinkedListPushBack(value)
    \/ \E value \in ListValues : LinkedListPushFront(value)
    \/ \E nodeIndex \in PoolIndices : LinkedListRemove(nodeIndex)

ListSpec == Init /\ [][ListNext]_vars

(***************************************************************************)
(* Slot manager: properties                                                *)
(***************************************************************************)
SlotOps == {"Write", "Read", "Release"}

\* the handle names an occupied entry by slotId and typeTag, but carries a
\* generation other than the one of the handle issued for that entry
StaleGeneration(handle) ==
    \E i \in 0..(MaxSlots - 1) :
        /\ slotTable[i].occupied
        /\ slotTable[i].slotId = handle.slotId
        /\ slotTable[i].typeTag = handle.typeTag
        /\ handle.generation # issued[i][Len(issued[i])].generation

\* C1: SlotWrite, SlotRead and SlotRelease given a handle whose slotId and
\* typeTag match an occupied entry but whose generation differs from the one
\* the entry was claimed under fail and leave the slot's data and occupancy
\* unchanged.
C1_StaleGenerationFails ==
    [][(lastOp'.op \in SlotOps /\ StaleGeneration(lastOp'.handle))
         => (/\ lastOp'.result # "SLOT_SUCCESS"
             /\ slotTable' = slotTable
             /\ poolMem' = poolMem)]_vars

\* C2: once SlotRelease(h) has returned success, every later SlotWrite,
\* SlotRead or SlotRelease with h returns SLOT_ERROR_SLOT_NOT_FOUND, whatever
\* claims and releases come in between.
C2_ReleasedHandleNotFound ==
    [][(lastOp'.op \in SlotOps /\ lastOp'.handle \in released)
         => lastOp'.result = "SLOT_ERROR_SLOT_NOT_FOUND"]_vars

\* C2 witness: an operation with a released handle has failed while the table
\* entry the handle's slot occupied is occupied again by a later claim.
C2_Witness ==
    /\ lastOp.op \in SlotOps
    /\ lastOp.handle \in released
    /\ lastOp.result = "SLOT_ERROR_SLOT_NOT_FOUND"
    /\ \E i \in 0..(MaxSlots - 1) :
          /\ slotTable[i].occupied
          /\ \E k \in 1..Len(issued[i]) :
                /\ issued[i][k].slotId = lastOp.handle.slotId
                /\ k < Len(issued[i])

\* C3: a SlotRead of a slot, with a buffer of the size of the value last
\* written to it, succeeds and yields that value (stated for values no
\* larger than the size SlotRead copies for the slot's type).
C3_ReadYieldsLastWritten ==
    LET v == lastWritten[lastOp.handle.slotId]
    IN (/\ lastOp.op = "Read"
        /\ v # NoData
        /\ v.size <= TypeGetSize(lastOp.handle.typeTag)
        /\ lastOp.bufferSize = v.size)
         => (lastOp.result = "SLOT_SUCCESS" /\ lastOp.out = BytesOf(v))

\* C4: every claim that reuses a table entry issues a handle whose generation
\* is one greater than that of the handle issued before for the same entry.
C4_GenerationIncrements ==
    \A i \in 0..(MaxSlots - 1) :
        \A k \in 2..Len(issued[i]) :
            issued[i][k].generation = issued[i][k - 1].generation + 1

\* the handle names an occupied entry by slotId, with another typeTag
TypeMismatch(handle) ==
    \E i \in 0..(MaxSlots - 1) :
        /\ slotTable[i].occupied
        /\ slotTable[i].slotId = handle.slotId
        /\ slotTable[i].typeTag # handle.typeTag

\* C5: SlotWrite, SlotRead and SlotRelease given a handle whose slotId names
\* an occupied entry of another typeTag return SLOT_ERROR_TYPE_MISMATCH and
\* change nothing.
C5_TypeMismatchRejected ==
    [][(lastOp'.op \in SlotOps /\ TypeMismatch(lastOp'.handle))
         => (/\ lastOp'.result = "SLOT_ERROR_TYPE_MISMATCH"
             /\ slotTable' = slotTable
             /\ poolMem' = poolMem
             /\ freeBlocks' = freeBlocks)]_vars

(***************************************************************************)
(* Scheduler and scope: properties                                         *)
(***************************************************************************)
RECURSIVE Occurrences(_, _)
\* how many times fiber appears in queue
Occurrences(queue, fiber) ==
    IF queue = <<>> THEN 0
    ELSE (IF Head(queue) = fiber THEN 1 ELSE 0) + Occurrences(Tail(queue), fiber)

RECURSIVE SumOver(_, _)
SumOver(ws, fiber) ==
    IF ws = {} THEN 0
    ELSE LET w == CHOOSE x \in ws : TRUE
         IN Occurrences(localRunQueue[w], fiber) + SumOver(ws \ {w}, fiber)

\* entries for fiber over the global queue and every local queue
Queued(fiber) == Occurrences(globalRunQueue, fiber) + SumOver(Workers, fiber)

\* C6: a fiber is in at most one run queue and at most once, and a fiber in
\* state RUNNING is the currentFiber of exactly one worker
C6_QueuedOnceRunningOnOneWorker ==
    \A fiber \in FiberIds :
        /\ Queued(fiber) <= 1
        /\ (Live(fiber) /\ fibers[fiber].state = "RUNNING")
              => Cardinality({w \in Workers : workers[w].currentFiber = fiber}) = 1

\* C7: every fiber made by SchedulerSpawn is eventually set RUNNING by a worker
\* (or the process has aborted)
C7_SpawnedEventuallyRuns ==
    \A fiber \in FiberIds :
        (fibers[fiber].state # "NONE") ~> (fibers[fiber].state = "RUNNING" \/ crashed)

ActiveStates == {"READY", "RUNNING", "SUSPENDED", "BLOCKED"}

\* C8: once AsyncScopeDestroy(scope) has returned, no fiber made by
\* AsyncScopeSpawn for that scope is READY, RUNNING, SUSPENDED or BLOCKED
C8_DestroyedScopeHasNoActiveFiber ==
    \A s \in ScopeIds : scopes[s].destroyPc = "returned" =>
        \A fiber \in FiberIds : fibers[fiber].scope = s => fibers[fiber].state \notin ActiveStates

\* the fiber AsyncScopeSpawn puts in the scope's list is the one made by its
\* own FiberCreate; the one SchedulerSpawnWithPriority queues is another.  In
\* every reachable state a listed fiber is READY, in no run queue and not the
\* currentFiber of any worker.
ListedFiberNeverScheduled ==
    \A s \in ScopeIds : \A fiber \in Range(scopes[s].fibers) :
        /\ fibers[fiber].state = "READY"
        /\ Queued(fiber) = 0
        /\ \A w \in Workers : workers[w].currentFiber # fiber

\* C9: once the scope is cancelled, every fiber in its list eventually is DONE
\* or ERROR (or the process has aborted)
C9_CancelledFibersFinish ==
    \A s \in ScopeIds : \A fiber \in FiberIds :
        (scopes[s].isCancelled /\ fiber \in Range(scopes[s].fibers))
            ~> (fibers[fiber].state \in {"DONE", "ERROR"} \/ crashed)

\* C10: when the wrapped work of a scope's fiber has exited, normally or on
\* the cancelled-on-entry path, the scope's list holds no fiber for that work
C10_ExitedWorkRemovedFromScope ==
    \A fiber \in FiberIds :
        (fibers[fiber].scope # NULL /\ ~scopes[fibers[fiber].scope].freed
           /\ fibers[fiber].pc \in {"done", "finished"})
        => \A k \in 1..Len(scopes[fibers[fiber].scope].fibers) :
              fibers[scopes[fibers[fiber].scope].fibers[k]].arg # fibers[fiber].arg

(***************************************************************************)
(* C11: AsyncScopeDestroy is idempotent: a second call on a scope returns  *)
(* without reading or writing state that the first call freed or           *)
(* destroyed.  Stated as: no scope has been entered by a repeated          *)
(* AsyncScopeDestroy call after its memory was freed.                      *)
(***************************************************************************)
C11_SecondDestroyTouchesNoFreedState ==
    \A s \in ScopeIds : scopes[s].reentered => ~scopes[s].freed

(***************************************************************************)
(* C12: SchedulerStop eventually returns: once it has cleared isRunning    *)
(* and set the stop flags, every worker leaves its loop and the joins      *)
(* complete (unless the process has aborted meanwhile).                    *)
(***************************************************************************)
C12_SchedulerStopReturns ==
    (scheduler.stopPc # "idle") ~> (scheduler.stopPc = "returned" \/ crashed)

(***************************************************************************)
(* Security context: properties                                            *)
(***************************************************************************)
\* the last TokenValidate call found the capability expired
Expired(v) == v.capability.expiryTime > 0 /\ v.currentTime > v.capability.expiryTime

\* the fingerprint TokenGenerate bound into the token of a capability
FingerprintOf(capability) == capability.token.tokenData[1]

Validated == lastValidate.result # "NONE"

(***************************************************************************)
(* C13: a capability returned by TokenGenerate(ctx, s, level) and          *)
(* presented to TokenValidate(ctx, s, cap) is accepted if and only if it   *)
(* has not expired and the hardware fingerprint is the one it was issued   *)
(* under.                                                                  *)
(***************************************************************************)
C13_GenerateThenValidateSucceeds ==
    (Validated /\ lastValidate.slotId = lastValidate.capability.slotId) =>
        (lastValidate.result = "SECURITY_SUCCESS" <=>
            (~Expired(lastValidate) /\
             lastValidate.currentFingerprint = FingerprintOf(lastValidate.capability)))

(***************************************************************************)
(* C14: TokenValidate(ctx, s', cap) does not return success when cap was   *)
(* issued for a slot s other than s'.                                      *)
(***************************************************************************)
C14_OtherSlotRejected ==
    (Validated /\ lastValidate.slotId # lastValidate.capability.slotId) =>
        lastValidate.result # "SECURITY_SUCCESS"

\* an unexpired capability was presented for another slot, on unchanged
\* hardware, and turned down at the slot id test
C14_Witness ==
    /\ Validated
    /\ lastValidate.slotId # lastValidate.capability.slotId
    /\ ~Expired(lastValidate)
    /\ lastValidate.currentFingerprint = FingerprintOf(lastValidate.capability)
    /\ lastValidate.result = "SECURITY_ERROR_INVALID_TOKEN"
    /\ context.securityViolations = 1

(***************************************************************************)
(* C15: for a capability of level Hardware or Encrypted TokenValidate      *)
(* returns SECURITY_ERROR_HARDWARE_MISMATCH whenever the fingerprint       *)
(* regenerated at validation differs from the one the capability was       *)
(* generated under; a capability of level Basic never gets that result.    *)
(***************************************************************************)
C15_HardwareMismatchWhenever ==
    Validated =>
        /\ (/\ lastValidate.capability.level >= SECURITY_LEVEL_HARDWARE
            /\ lastValidate.currentFingerprint # FingerprintOf(lastValidate.capability))
              => lastValidate.result = "SECURITY_ERROR_HARDWARE_MISMATCH"
        /\ lastValidate.capability.level = SECURITY_LEVEL_BASIC
              => lastValidate.result # "SECURITY_ERROR_HARDWARE_MISMATCH"

\* C15 as the code has it: the expiry test and the slot id test come first,
\* so the hardware test decides for a capability that has not expired and is
\* presented for its own slot
C15_HardwareMismatchAfterExpiryAndSlot ==
    Validated =>
        /\ (/\ lastValidate.capability.level >= SECURITY_LEVEL_HARDWARE
            /\ lastValidate.currentFingerprint # FingerprintOf(lastValidate.capability)
            /\ ~Expired(lastValidate)
            /\ lastValidate.slotId = lastValidate.capability.slotId)
              => lastValidate.result = "SECURITY_ERROR_HARDWARE_MISMATCH"
        /\ lastValidate.capability.level = SECURITY_LEVEL_BASIC
              => lastValidate.result # "SECURITY_ERROR_HARDWARE_MISMATCH"

\* an Encrypted capability was presented on changed hardware and got the
\* hardware mismatch
C15_Witness ==
    /\ Validated
    /\ lastValidate.capability.level = SECURITY_LEVEL_ENCRYPTED
    /\ lastValidate.currentFingerprint # FingerprintOf(lastValidate.capability)
    /\ lastValidate.result = "SECURITY_ERROR_HARDWARE_MISMATCH"

(***************************************************************************)
(* C16: a secure slot operation (SlotReadSecure, SlotReleaseSecure,        *)
(* SlotRefreshToken) on a secure slot, presented with a capability whose   *)
(* slotId differs from the handle's, returns an error, does not read,      *)
(* release or refresh, and adds exactly 1 to manager->securityViolations.  *)
(***************************************************************************)
C16_WrongSlotCapabilityCounted ==
    (/\ lastSecureOp.op \in {"ReadSecure", "ReleaseSecure", "RefreshToken"}
     /\ lastSecureOp.secureSlot
     /\ lastSecureOp.token.slotId # lastSecureOp.handle.slotId) =>
        /\ lastSecureOp.result # "SLOT_SUCCESS"
        /\ ~lastSecureOp.performed
        /\ manager.securityViolations = lastSecureOp.violationsBefore + 1

(***************************************************************************)
(* The party dispatcher.                                                   *)
(***************************************************************************)
\* C17: when DispatchParallel returns under JOIN_ALL (from a map with at
\* least one entry), allSucceeded is true if and only if the result of every
\* entry has success = true; an entry that was skipped has success = false
\* and so makes allSucceeded false.
C17_JoinAllSucceededIffEveryResult ==
    (dispatch.pc = "returned" /\ dispatch.joinStrategy = "JOIN_ALL" /\ entryCount > 0)
        => (dispatch.allSucceeded <=> \A i \in 1..entryCount : dispatch.results[i].success)

\* every entry of the map got its fiber and at least one entry is one-shot
EveryFiberMade ==
    /\ \A i \in 1..entryCount : partyFibers[i].state # "none"
    /\ \E i \in 1..entryCount : ~dispatch.map[i]

\* C18: continuous fibers never block the join: a DispatchParallel call that
\* made a fiber for every entry of its map, at least one of them one-shot,
\* eventually returns, whatever the join strategy and however many of the
\* entries are continuous (the one-shot fibers all terminate, by fairness).
C18_DispatchWithContinuousReturns ==
    (dispatch.pc = "join" /\ EveryFiberMade) ~> (dispatch.pc = "returned")

\* C19: under JOIN_RACE, when DispatchParallel has returned every fiber other
\* than the first successful one has completed or has been cancelled, and a
\* fiber that was still running when the race was decided never ends with
\* success = true.
C19_RaceCancelsTheRest ==
    (dispatch.joinStrategy = "JOIN_RACE" /\ dispatch.completed # 0) =>
        /\ dispatch.pc = "returned" =>
               \A i \in (1..entryCount) \ {dispatch.completed} :
                   partyFibers[i].state \in {"none", "done"} \/ partyFibers[i].isCancelled
        /\ \A i \in dispatch.runningAtJoin : ~dispatch.results[i].success

\* the number of results with success = true
Successes == Cardinality({i \in 1..entryCount : dispatch.results[i].success})

\* DispatchParallel is inside WaitForFiber for a fiber that is still running
WaitingForRunning ==
    /\ dispatch.pc = "join"
    /\ dispatch.i <= entryCount
    /\ dispatch.fibers[dispatch.i] # NULL
    /\ partyFibers[dispatch.i].state = "running"

\* C20: under JOIN_MAJORITY with n entries, once floor(n/2)+1 fibers have
\* succeeded DispatchParallel is not waiting for a fiber that still runs, and
\* when it has returned with allSucceeded = false fewer than floor(n/2)+1
\* fibers have succeeded.
C20_MajorityStopsWaiting ==
    (dispatch.joinStrategy = "JOIN_MAJORITY" /\ entryCount > 0) =>
        /\ Successes >= RequiredCount(entryCount) => ~WaitingForRunning
        /\ (dispatch.pc = "returned" /\ ~dispatch.allSucceeded)
               => Successes < RequiredCount(entryCount)

(***************************************************************************)
(* The slot pool.                                                          *)
(***************************************************************************)
\* the indices on the free stack, freeList[0..freeListTop)
FreeStack == {pool.freeList[k] : k \in 0..(pool.freeListTop - 1)}

\* C21: after any sequence of SlotPoolAlloc and SlotPoolFree calls the free
\* stack holds exactly the indices whose occupancy flag is clear, each of
\* them once, and every index handed out by Alloc and not freed since has
\* its occupancy flag set.
C21_FreeStackIsTheUnoccupied ==
    /\ FreeStack = {i \in 0..(pool.capacity - 1) : ~pool.occupied[i]}
    /\ Cardinality(FreeStack) = pool.freeListTop
    /\ \A i \in poolHistory.allocated : pool.occupied[i]

\* an index was freed while another one is still handed out
C21_Witness ==
    /\ lastPoolOp.op = "Free"
    /\ lastPoolOp.result = TRUE
    /\ poolHistory.allocated # {}
    /\ pool.totalAllocations > pool.count + 1

\* C22: SlotPoolAlloc on a pool with no free index returns NULL_INDEX, and
\* SlotPoolFree of an index >= capacity or of an index that is not occupied
\* returns false; these calls leave the pool (flags, free stack, count,
\* statistics) as it was.
C22_RefusedCallsChangeNothing ==
    [][ /\ (lastPoolOp'.op = "Alloc" /\ pool.freeListTop = 0)
            => (lastPoolOp'.result = NULL_INDEX /\ pool' = pool)
        /\ (lastPoolOp'.op = "Free"
              /\ (IndexOutOfRange(pool, lastPoolOp'.index)
                    \/ ~pool.occupied[lastPoolOp'.index]))
            => (lastPoolOp'.result = FALSE /\ pool' = pool)
      ]_vars

\* an index of the pool was freed a second time and the call was refused
C22_Witness ==
    /\ lastPoolOp.op = "Free"
    /\ lastPoolOp.result = FALSE
    /\ ~IndexOutOfRange(pool, lastPoolOp.index)
    /\ pool.totalDeallocations > 0
    /\ pool.freeList[pool.freeListTop - 1] = lastPoolOp.index

\* C23: SlotPoolAlloc hands out indices in LIFO order of freeing: the
\* SlotPoolAlloc that follows a successful SlotPoolFree(i) returns i (so a
\* full pool allocates again after one Free).
C23_AllocReturnsLastFreed ==
    [][ (lastPoolOp'.op = "Alloc" /\ poolHistory.lastFreed # NULL_INDEX)
            => lastPoolOp'.result = poolHistory.lastFreed
      ]_vars

\* a full pool, one Free, and the Alloc after it has filled the pool again
C23_Witness ==
    /\ lastPoolOp.op = "Alloc"
    /\ lastPoolOp.result # NULL_INDEX
    /\ pool.count = pool.capacity
    /\ pool.totalDeallocations = 1
    /\ pool.totalAllocations = pool.capacity + 1

C25_CancelledSuspendedIsDestroyed ==
    \A f \in FiberIds : fibers[f].doneByCancel ~> fibers[f].freed

\* the scopes that s is nested under, directly or indirectly (parentScope)
RECURSIVE EnclosingScopes(_, _)
EnclosingScopes(sc, s) ==
    IF sc[s].parentScope = NULL THEN {}
    ELSE {sc[s].parentScope} \cup EnclosingScopes(sc, sc[s].parentScope)

NestedUnder(sc, parent) ==
    {s \in ScopeIds : sc[s].created /\ ~sc[s].freed /\ parent \in EnclosingScopes(sc, s)}

\* C26: at the return of AsyncScopeCancel(parent) (the step that sets the
\* parent's token), AsyncScopeIsCancelled is true of every scope nested
\* under parent and every fiber in the list of such a scope has isCancelled.
C26_CancelReachesNestedScopes ==
    [][\A parent \in ScopeIds :
          (~scopes[parent].isCancelled /\ scopes'[parent].isCancelled)
          => \A s \in NestedUnder(scopes, parent) :
                /\ AsyncScopeIsCancelled(scopes', s)
                /\ \A f \in Range(scopes[s].fibers) : Live(f) => fibers'[f].isCancelled]_vars

\* every fiber the race queued has been through RaceWorker and its wrapper
RaceWorkersExited ==
    /\ race.pc \in {"waiting", "returned"}
    /\ Cardinality(race.scheduled) = race.taskCount
    /\ \A f \in race.scheduled : fibers[f].pc \in {"done", "finished"}

\* C27: in a race on a scope that has not been cancelled, once every spawned
\* task has terminated there is a winner w, 0 <= w < n, whose routine has run
\* and whose completed flag is set; the compare-and-swap was won once; no
\* routine has been run by more than one fiber; a call that has returned has
\* returned w.
C27_RaceHasOneWinner ==
    (RaceWorkersExited /\ ~scopes[race.parent].isCancelled) =>
        /\ race.winnerIndex \in 0..(race.taskCount - 1)
        /\ race.completed[race.winnerIndex + 1]
        /\ race.ranBy[race.winnerIndex + 1] # {}
        /\ race.casWins = 1
        /\ \A i \in 1..race.taskCount : Cardinality(race.ranBy[i]) <= 1
        /\ race.pc = "returned" => race.result = race.winnerIndex

Reverse(seq) == [k \in 1..Len(seq) |-> seq[Len(seq) + 1 - k]]

\* C28: when SecureSlotScopeDestroy has returned, the SlotReleaseSecure calls
\* it made were made in the reverse of the order in which the slots were
\* claimed through the scope: last claimed, first released.
C28_ScopeReleasesInReverse ==
    secureScope.state = "destroyed" => secureScope.releaseCalls = Reverse(secureScope.claimed)

\* C29: when SecureSlotScopeDestroy has returned, no slot claimed through the
\* scope has an occupied table entry and activeSlots is what it was before
\* the scope's claims.
C29_ScopeDestroyReleasesAll ==
    secureScope.state = "destroyed" =>
        /\ \A k \in 1..Len(secureScope.claimed) :
              LET i == FindEntry(slotTable, secureScope.claimed[k].slotId)
              IN i = -1 \/ ~slotTable[i].occupied
        /\ activeSlots = secureScope.activeBefore

\* C30: no block stays marked in use after its slot is released: in a state
\* where no slot is occupied, no block of the memory pool is marked in use.
C30_ReleaseReturnsEveryBlock ==
    (\A i \in 0..(MaxSlots - 1) : ~slotTable[i].occupied)
        => \A b \in 0..(PoolBlocks - 1) : ~freeBlocks[b]

\* C31: a SlotRead of a slot whose last write was a successful write of zero
\* bytes succeeds and returns no bytes (bytesRead = 0).
C31_ZeroWriteReadsBackEmpty ==
    LET v == lastWritten[lastOp.handle.slotId]
    IN (lastOp.op = "Read" /\ v # NoData /\ v.size = 0)
         => (lastOp.result = "SLOT_SUCCESS" /\ Len(lastOp.out) = 0)

\* C32: the parent relation over live fibers is a forest: the parent of a
\* live fiber is a fiber that has not been destroyed, no fiber is its own
\* ancestor, and a fiber with parent p is in p's child list exactly once.
C32_ParentsFormAForest ==
    \A f \in FiberIds :
        (Live(f) /\ fibers[f].parent # NULL) =>
            /\ ~fibers[fibers[f].parent].freed
            /\ f \notin Ancestors(fibers, fibers[f].parent)
            /\ Occurrences(fibers[fibers[f].parent].children, f) = 1

\* C33: when the running fiber has called SchedulerBlock (FiberSuspend) on
\* itself and hands control back to its worker, its state is still BLOCKED
\* (SUSPENDED) when the worker regains control, and it is on no run queue.
C33_BlockedStaysBlocked ==
    [][\A w \in Workers :
         LET fiber == workers[w].currentFiber
         IN (/\ workers[w].pc = "running"
             /\ workers'[w].pc = "switched"
             /\ workers[w].tlsCurrentFiber = fiber
             /\ fibers[fiber].pc = "yielding"
             /\ fibers[fiber].state \in {"BLOCKED", "SUSPENDED"})
              => (/\ fibers'[fiber].state = fibers[fiber].state
                  /\ Queued(fiber)' = 0)]_vars

\* C34: a FiberResume of a SUSPENDED fiber makes it READY and leaves it on a
\* run queue of its scheduler.
C34_ResumeQueuesTheFiber ==
    [][\A f \in FiberIds :
         (/\ fibers[f].state = "SUSPENDED"
          /\ fibers'[f].state = "READY"
          /\ workers' = workers)
           => Queued(f)' >= 1]_vars

\* C35: when the worker regains control from a fiber whose start routine has
\* returned, it finds the fiber DONE, destroys it and pushes it on no queue.
C35_ReturnedFiberIsDestroyed ==
    [][\A w \in Workers :
         LET fiber == workers[w].currentFiber
         IN (/\ workers[w].pc = "switched"
             /\ workers'[w].pc = "loop"
             /\ fibers[fiber].pc = "finished")
              => (/\ fibers[fiber].state = "DONE"
                  /\ fibers'[fiber].freed
                  /\ Queued(fiber)' = 0)]_vars

\* no worker is inside a fiber or between the switch back and its handling
Quiescent == \A w \in Workers : workers[w].currentFiber = NULL

\* C36: in every quiescent state activeFibers is the number of fibers that
\* were spawned and have not been destroyed.
C36_ActiveFibersCountsLiveFibers ==
    Quiescent => activeFibers = Cardinality({f \in FiberIds : Live(f)})

\* the fibers made to run the wrapper data that fiber carries
FibersOfData(fs, data) == {f \in FiberIds : fs[f].state # "NONE" /\ fs[f].arg = data}

\* C37: when an AsyncScopeSpawn call returns, the fiber it recorded in the
\* scope's list is on the run queue, and it is the only fiber made for the
\* wrapper data of the call.
C37_SpawnMakesOneFiber ==
    [][(spawning.phase = "schedule" /\ spawning'.phase = "none")
         => (/\ Queued(spawning.fiber)' = 1
             /\ FibersOfData(fibers', fibers[spawning.fiber].arg) = {spawning.fiber})]_vars

\* C38: once DispatchParallel has returned and freed wrappers, fibers and
\* stopFlags, every fiber it made has finished, and none of them has read a
\* wrapper or a stop flag, or written a result, after the free.
C38_NoFiberOutlivesDispatch ==
    dispatch.pc = "returned" =>
        \A i \in 1..entryCount :
            /\ partyFibers[i].state \in {"none", "done"}
            /\ ~partyFibers[i].usedFreed

\* the entries that hold a data block
WithBlock == {i \in 0..(MaxSlots - 1) : slotTable[i].occupied /\ slotTable[i].dataBlockRef # NULL}

\* C39: the bytes of the last successful SlotWrite of every slot lie inside
\* the blocks reserved for that slot when its block was allocated, and
\* outside the blocks reserved for every other occupied slot.
C39_WritesStayInsideTheSlot ==
    \A i \in WithBlock :
        LET v == lastWritten[slotTable[i].slotId]
            first == slotTable[i].dataBlockRef
        IN v # NoData =>
             /\ v.size <= slotTable[i].reserved
             /\ \A j \in WithBlock \ {i} :
                   \/ first + v.size <= slotTable[j].dataBlockRef
                   \/ slotTable[j].dataBlockRef + slotTable[j].reserved <= first

(***************************************************************************)
(* The linked list.                                                        *)
(***************************************************************************)
RECURSIVE ListWalk(_, _, _)
\* the indices met from index on by following next, at most fuel of them
ListWalk(l, index, fuel) ==
    IF index = NULL_INDEX \/ fuel = 0 \/ GetsNull(l.nodePool, index) THEN <<>>
    ELSE <<index>> \o ListWalk(l, l.nodePool.data[index].next, fuel - 1)

\* count agrees with the pool, the walk from head visits count nodes and
\* ends at tail, and prev and next are inverse of each other
ListWellFormed(l) ==
    LET walk == ListWalk(l, l.head, l.nodePool.capacity + 1)
        node(i) == l.nodePool.data[i]
    IN /\ ~l.fault
       /\ l.count = l.nodePool.count
       /\ Len(walk) = l.count
       /\ Cardinality(Range(walk)) = l.count
       /\ l.tail = IF walk = <<>> THEN NULL_INDEX ELSE walk[Len(walk)]
       /\ l.head = NULL_INDEX <=> l.count = 0
       /\ \A k \in 1..Len(walk) :
             /\ node(walk[k]).prev = IF k = 1 THEN NULL_INDEX ELSE walk[k - 1]
             /\ node(walk[k]).next = IF k = Len(walk) THEN NULL_INDEX ELSE walk[k + 1]

\* C40: after every LinkedListPushBack, LinkedListPushFront and
\* LinkedListRemove the list's count is the node pool's count, the walk along
\* next from head visits exactly count nodes and ends at tail, and prev and
\* next are inverse of each other; a push on a full pool returns NULL_INDEX
\* and leaves the list as it was.
C40_ListStaysWellFormed ==
    [][ /\ ListWellFormed(linkedList')
        /\ (lastListOp'.op \in {"PushBack", "PushFront"}
               /\ linkedList.nodePool.count = linkedList.nodePool.capacity)
             => (lastListOp'.result = NULL_INDEX /\ linkedList' = linkedList)
      ]_vars

\* a list filled from both ends, a node taken out of its middle, filled
\* again, and a further push refused
C40_Witness ==
    /\ lastListOp.op = "PushBack"
    /\ lastListOp.full
    /\ linkedList.count = linkedList.nodePool.capacity
    /\ linkedList.nodePool.totalDeallocations > 0
    /\ linkedList.nodePool.data[linkedList.head].value # linkedList.nodePool.data[linkedList.tail].value
    /\ linkedList.head # 0 /\ linkedList.tail # 0

====
